---- MODULE Spec2Model ----
(***************************************************************************)
(* The leaderboard store of the EcoBee backend                             *)
(* (backend/product_database.py, class ProductDatabase) and the two HTTP   *)
(* handlers of backend/app.py that reach it.                               *)
(*                                                                         *)
(* Scores (composite and per-boundary) are Python floats; the model keeps  *)
(* them as integers counting hundredths of a point, so 55.04 is 5504 and   *)
(* round(x, 1) is rounding to the nearest multiple of 10.                  *)
(***************************************************************************)
EXTENDS Integers, Sequences, FiniteSets, TLC

\* ------------------------------------------------------------------------
\* Values
\* ------------------------------------------------------------------------

\* Python's None.
None == "<None>"

\* An empty dict, {}.
EmptyDict == [k \in {} |-> 0]

\* The five boundary keys get_leaderboard accepts as boundary_filter.
BoundaryKeys == <<"climate", "biosphere", "biogeochemical", "freshwater", "aerosols">>

\* The user ids requests carry.  "user_001" is also a seeded sample user.
Users == {"u1", "user_001"}

BGreen == [climate |-> 2000, biosphere |-> 3000, biogeochemical |-> 2500,
           freshwater |-> 4000, aerosols |-> 3500]

BGrey == [climate |-> 8000, biosphere |-> 6000, biogeochemical |-> 7500,
          freshwater |-> 7000, aerosols |-> 7000]

\* What a submission carries besides the user id: composite scores 71.00,
\* 50.04 and 50.00, with boundary scores that are not ordered as the
\* composites are (one payload has none: the endpoint's default {}), with and
\* without an affiliation.
Payloads ==
    {[composite_score |-> 7100, boundary_scores |-> BGreen, campus_affiliation |-> None],
     [composite_score |-> 5004, boundary_scores |-> BGrey,
      campus_affiliation |-> "Lancaster University"],
     [composite_score |-> 5000, boundary_scores |-> EmptyDict, campus_affiliation |-> None]}

\* datetime.now(): a timestamp is its date part (the first ten characters of
\* isoformat()) and its time-of-day part.
Times == {[date |-> "2026-11-02", time |-> "23:59:58.120000"],
          [date |-> "2026-11-03", time |-> "08:15:00.000001"]}

\* PYTHONHASHSEED of a process run: str hashes are salted per process.
HashSeeds == {0, 1}

\* The server processes that share leaderboard.json.
Procs == {"p1", "p2"}

Main == "p1"

\* Sessions per user the model follows a run for.
MaxSessions == 3

\* ------------------------------------------------------------------------
\* Helpers
\* ------------------------------------------------------------------------

\* Python truthiness of an optional string.
Truthy(v) == v # None /\ v # ""

\* round(num / den, 1) on hundredths: the nearest multiple of 10, a tie going
\* to the even tenth (den > 0, num >= 0).
Round1(num, den) ==
    LET d10 == 10 * den
        q   == num \div d10
        rem == num % d10
    IN  IF 2 * rem < d10 THEN 10 * q
        ELSE IF 2 * rem > d10 THEN 10 * (q + 1)
        ELSE IF q % 2 = 0 THEN 10 * q ELSE 10 * (q + 1)

\* dict.get(key, default)
DictGet(d, key, default) == IF key \in DOMAIN d THEN d[key] ELSE default

RECURSIVE SumSeq(_)
SumSeq(s) == IF s = << >> THEN 0 ELSE Head(s) + SumSeq(Tail(s))

MinSeq(s) == CHOOSE m \in {s[i] : i \in DOMAIN s} : \A i \in DOMAIN s : m <= s[i]

\* len([x for x in s if ...]): flags[i] tells whether s[i] passes the test.
CountIf(s, flags) == Cardinality({i \in DOMAIN s : flags[i]})

\* sorted(s, key=...): keys[i] is the key of s[i].  Ascending and stable:
\* elements with equal keys keep their order in s.
sorted(s, keys) ==
    LET Position(i) == 1 + Cardinality({j \in DOMAIN s :
                              keys[j] < keys[i] \/ (keys[j] = keys[i] /\ j < i)})
    IN  [r \in DOMAIN s |-> s[CHOOSE i \in DOMAIN s : Position(i) = r]]

\* s[:limit], a Python slice: a negative limit counts from the end.
SliceTo(s, limit) ==
    IF limit >= 0 THEN SubSeq(s, 1, IF limit < Len(s) THEN limit ELSE Len(s))
    ELSE SubSeq(s, 1, IF Len(s) + limit > 0 THEN Len(s) + limit ELSE 0)

\* ------------------------------------------------------------------------
\* Pseudonyms (ProductDatabase._generate_pseudonym)
\* ------------------------------------------------------------------------

animals == <<"Eco-Eagle", "Green-Gecko", "Solar-Sparrow", "Wind-Wolf", "Ocean-Otter",
             "Forest-Fox", "River-Rabbit", "Mountain-Mouse", "Garden-Goose", "Desert-Deer",
             "Arctic-Ant", "Jungle-Jay", "Prairie-Panda", "Coral-Cat", "Meadow-Mole",
             "Valley-Viper", "Canyon-Crane", "Tundra-Tiger", "Savanna-Swan", "Reef-Raven">>

adjectives == <<"Mighty", "Swift", "Wise", "Bold", "Gentle", "Bright", "Noble", "Calm",
                "Keen", "Brave", "Quick", "Smart", "Kind", "Strong", "Pure", "Free">>

Digits == <<"0", "1", "2", "3", "4", "5", "6", "7", "8", "9">>

\* f"{number:02d}" for 0 <= number < 100
Format02d(number) == Digits[(number \div 10) + 1] \o Digits[(number % 10) + 1]

\* The text of a user id as a number, for the hash below.
UserCode(user_id) == CASE user_id = "u1" -> 117
                       [] user_id = "user_001" -> 4001
                       [] OTHER -> 0

\* The builtin hash() of a str: a function of the text and of the process's
\* hash seed, signed (the builtin's value may be negative).
StrHash(seed, user_id) ==
    ((UserCode(user_id) * 7919 + seed * (104729 + UserCode(user_id))) % 2000003) - 1000001

_generate_pseudonym(seed, user_id) ==
    LET hash_val  == StrHash(seed, user_id) % 10000
        animal    == animals[(hash_val % Len(animals)) + 1]
        adjective == adjectives[((hash_val \div Len(animals)) % Len(adjectives)) + 1]
        number    == (hash_val \div (Len(animals) * Len(adjectives))) % 100
    IN  adjective \o "-" \o animal \o "-" \o Format02d(number)

\* ------------------------------------------------------------------------
\* Entries and their JSON form
\* ------------------------------------------------------------------------

\* The dataclass LeaderboardEntry.
LeaderboardEntry(user_id, pseudonym, composite_score, boundary_scores, submission_date, session_count, campus_affiliation) ==
    [user_id |-> user_id, pseudonym |-> pseudonym,
     composite_score |-> composite_score, boundary_scores |-> boundary_scores,
     submission_date |-> submission_date, session_count |-> session_count,
     campus_affiliation |-> campus_affiliation]

\* dataclasses.asdict(entry), as json.dump writes it.
asdict(entry) ==
    [user_id |-> entry.user_id, pseudonym |-> entry.pseudonym,
     composite_score |-> entry.composite_score,
     boundary_scores |-> entry.boundary_scores,
     submission_date |-> entry.submission_date,
     session_count |-> entry.session_count,
     campus_affiliation |-> entry.campus_affiliation]

\* LeaderboardEntry(**d) for a dict read back by json.load.
EntryFromDict(d) ==
    LeaderboardEntry(d.user_id, d.pseudonym, d.composite_score, d.boundary_scores,
                     d.submission_date, d.session_count,
                     DictGet(d, "campus_affiliation", None))

\* The index of the first entry of user_id, 0 when there is none
\* (existing_entry, with 0 for None).
FindEntry(entries, user_id) ==
    IF \E i \in DOMAIN entries : entries[i].user_id = user_id
    THEN CHOOSE i \in DOMAIN entries :
            /\ entries[i].user_id = user_id
            /\ \A j \in 1..(i - 1) : entries[j].user_id # user_id
    ELSE 0

\* ------------------------------------------------------------------------
\* Statistics
\* ------------------------------------------------------------------------

IsExcellent(s) == s <= 3000
IsGood(s) == 3000 < s /\ s <= 5000
IsAverage(s) == 5000 < s /\ s <= 7000
NeedsImprovement(s) == s > 7000

\* total_submissions counted as the number of entries.
_update_leaderboard_stats_SubmissionsAsUsers(entries, stats, now) ==
    IF entries = << >> THEN stats
    ELSE LET scores == [i \in DOMAIN entries |-> entries[i].composite_score]
             session_counts == [i \in DOMAIN entries |-> entries[i].session_count]
         IN  [total_submissions |-> Len(entries),
              unique_users |-> Len(entries),
              average_sessions_per_user |->
                  Round1(100 * SumSeq(session_counts), Len(session_counts)),
              score_distribution |->
                  [excellent |-> CountIf(scores, [i \in DOMAIN scores |-> IsExcellent(scores[i])]),
                   good |-> CountIf(scores, [i \in DOMAIN scores |-> IsGood(scores[i])]),
                   average |-> CountIf(scores, [i \in DOMAIN scores |-> IsAverage(scores[i])]),
                   needs_improvement |-> CountIf(scores, [i \in DOMAIN scores |-> NeedsImprovement(scores[i])])],
              last_updated |-> now]

\* ProductDatabase._update_leaderboard_stats: the new leaderboard_stats
\* (unchanged when there are no entries).
_update_leaderboard_stats(entries, stats, now) ==
    IF entries = << >> THEN stats
    ELSE LET scores == [i \in DOMAIN entries |-> entries[i].composite_score]
             session_counts == [i \in DOMAIN entries |-> entries[i].session_count]
         IN  [total_submissions |-> SumSeq(session_counts),
              unique_users |-> Len(entries),
              average_sessions_per_user |->
                  Round1(100 * SumSeq(session_counts), Len(session_counts)),
              score_distribution |->
                  [excellent |-> CountIf(scores, [i \in DOMAIN scores |-> IsExcellent(scores[i])]),
                   good |-> CountIf(scores, [i \in DOMAIN scores |-> IsGood(scores[i])]),
                   average |-> CountIf(scores, [i \in DOMAIN scores |-> IsAverage(scores[i])]),
                   needs_improvement |-> CountIf(scores, [i \in DOMAIN scores |-> NeedsImprovement(scores[i])])],
              last_updated |-> now]

\* The boundary keys some entry carries.
BoundaryKeysOf(entries) == UNION {DOMAIN entries[i].boundary_scores : i \in DOMAIN entries}

\* ProductDatabase._calculate_boundary_averages
_calculate_boundary_averages(entries) ==
    [b \in BoundaryKeysOf(entries) |->
        LET having == {i \in DOMAIN entries : b \in DOMAIN entries[i].boundary_scores}
            vals == [i \in DOMAIN entries |->
                        IF i \in having THEN entries[i].boundary_scores[b] ELSE 0]
        IN  Round1(SumSeq(vals), Cardinality(having))]

\* ------------------------------------------------------------------------
\* submit_score, the part that works on the entries in memory
\* ------------------------------------------------------------------------

\* The pseudonym generated for this call used in place of the stored one.
ImprovedEntry_NewPseudonym(old_entry, pseudonym, user_id, composite_score, boundary_scores, campus_affiliation, now) ==
    LeaderboardEntry(user_id, pseudonym, composite_score, boundary_scores,
                     now, old_entry.session_count + 1,
                     IF Truthy(campus_affiliation) THEN campus_affiliation
                     ELSE old_entry.campus_affiliation)

\* Lines 291-299: the entry that replaces old_entry when the score improved
\* (pseudonym is the one line 278 generated for this call).
ImprovedEntry(old_entry, pseudonym, user_id, composite_score, boundary_scores, campus_affiliation, now) ==
    LeaderboardEntry(user_id, old_entry.pseudonym, composite_score, boundary_scores,
                     now, old_entry.session_count + 1,
                     IF Truthy(campus_affiliation) THEN campus_affiliation
                     ELSE old_entry.campus_affiliation)

\* Line 304: the entry after a submission that did not improve on it.
CountedEntry(old_entry) ==
    [old_entry EXCEPT !.session_count = old_entry.session_count + 1]

\* Lines 308-316: the entry of a user's first submission.
NewEntry(user_id, pseudonym, composite_score, boundary_scores, campus_affiliation, now) ==
    LeaderboardEntry(user_id, pseudonym, composite_score, boundary_scores,
                     now, 1, campus_affiliation)

\* A comparison turned around: a higher score counted as the better one.
IsImprovement_Reversed(composite_score, old_entry) ==
    composite_score > old_entry.composite_score

\* An equal score counted as an improvement.
IsImprovement_OrEqual(composite_score, old_entry) ==
    composite_score <= old_entry.composite_score

\* Line 290: is the submitted score better than the stored one (lower is better)?
IsImprovement(composite_score, old_entry) ==
    composite_score < old_entry.composite_score

\* Lines 300-301: what an improving submission returns.
ImprovedResult(old_entry, composite_score) ==
    [status |-> "improved",
     improvement |-> Round1(old_entry.composite_score - composite_score, 1)]

\* Line 305
NoImprovementResult(old_entry) ==
    [status |-> "no_improvement", current_best |-> old_entry.composite_score]

\* Line 318
NewEntryResult(entries) == [status |-> "new_entry", rank |-> Len(entries)]

\* Lines 278-318: the entries after the submission and the dict returned.
SubmitOutcome(entries, seed, user_id, composite_score, boundary_scores, campus_affiliation, now) ==
    LET pseudonym == _generate_pseudonym(seed, user_id)
        existing_entry == FindEntry(entries, user_id)
    IN  IF existing_entry # 0
        THEN LET old_entry == entries[existing_entry]
             IN  IF IsImprovement(composite_score, old_entry)
                 THEN [entries |-> [entries EXCEPT ![existing_entry] =
                                       ImprovedEntry(old_entry, pseudonym, user_id, composite_score,
                                                     boundary_scores, campus_affiliation, now)],
                       result |-> ImprovedResult(old_entry, composite_score)]
                 ELSE [entries |-> [entries EXCEPT ![existing_entry] = CountedEntry(old_entry)],
                       result |-> NoImprovementResult(old_entry)]
        ELSE LET new_entries == Append(entries,
                                    NewEntry(user_id, pseudonym, composite_score,
                                             boundary_scores, campus_affiliation, now))
             IN  [entries |-> new_entries, result |-> NewEntryResult(new_entries)]

\* ------------------------------------------------------------------------
\* get_leaderboard
\* ------------------------------------------------------------------------

\* Line 331: is boundary_filter one of the five boundary keys?
IsBoundaryFilter(boundary_filter) ==
    Truthy(boundary_filter) /\ \E i \in DOMAIN BoundaryKeys : BoundaryKeys[i] = boundary_filter

\* Lines 331-339: the sort key of an entry.
SortKey(entry, boundary_filter) ==
    IF IsBoundaryFilter(boundary_filter)
    THEN DictGet(entry.boundary_scores, boundary_filter, 10000)
    ELSE entry.composite_score

\* The row built from the whole entry: the user_id goes out with it.
LeaderboardRow_WithUserId(rank, entry) ==
    [rank |-> rank,
     user_id |-> entry.user_id,
     pseudonym |-> entry.pseudonym,
     composite_score |-> entry.composite_score,
     boundary_scores |-> entry.boundary_scores,
     submission_date |-> entry.submission_date.date,
     session_count |-> entry.session_count,
     campus_affiliation |-> IF Truthy(entry.campus_affiliation)
                            THEN entry.campus_affiliation ELSE "Not specified"]

\* Lines 348-356: one row of the view.
LeaderboardRow(rank, entry) ==
    [rank |-> rank,
     pseudonym |-> entry.pseudonym,
     composite_score |-> entry.composite_score,
     boundary_scores |-> entry.boundary_scores,
     submission_date |-> entry.submission_date.date,
     session_count |-> entry.session_count,
     campus_affiliation |-> IF Truthy(entry.campus_affiliation)
                            THEN entry.campus_affiliation ELSE "Not specified"]

\* Lines 359-375: the aggregate statistics of the view.
ViewStats(entries) ==
    IF entries # << >>
    THEN LET all_scores == [i \in DOMAIN entries |-> entries[i].composite_score]
         IN  [total_participants |-> Len(entries),
              average_score |-> Round1(SumSeq(all_scores), Len(all_scores)),
              best_score |-> Round1(MinSeq(all_scores), 1),
              median_score |->
                  Round1(sorted(all_scores, all_scores)[(Len(all_scores) \div 2) + 1], 1),
              boundary_averages |-> _calculate_boundary_averages(entries)]
    ELSE [total_participants |-> 0, average_score |-> 0, best_score |-> 0,
          median_score |-> 0, boundary_averages |-> EmptyDict]

\* The statistics computed over the rows shown instead of over every entry.
get_leaderboard_StatsOfShown(entries, limit, boundary_filter, now) ==
    LET keys == [i \in DOMAIN entries |-> SortKey(entries[i], boundary_filter)]
        sorted_entries == sorted(entries, keys)
        shown == SliceTo(sorted_entries, limit)
    IN  [leaderboard |-> [i \in DOMAIN shown |-> LeaderboardRow(i, shown[i])],
         stats |-> ViewStats(shown),
         filter |-> boundary_filter,
         last_updated |-> now]

\* Lines 328-382
get_leaderboard(entries, limit, boundary_filter, now) ==
    LET keys == [i \in DOMAIN entries |-> SortKey(entries[i], boundary_filter)]
        sorted_entries == sorted(entries, keys)
        shown == SliceTo(sorted_entries, limit)
    IN  [leaderboard |-> [i \in DOMAIN shown |-> LeaderboardRow(i, shown[i])],
         stats |-> ViewStats(entries),
         filter |-> boundary_filter,
         last_updated |-> now]

\* ------------------------------------------------------------------------
\* The leaderboard file
\* ------------------------------------------------------------------------

\* leaderboard.json does not exist.
MissingFile == [kind |-> "missing"]

\* leaderboard.json exists and is not a JSON document: it is empty (opened
\* for writing and truncated) or holds the beginning of a document.
CorruptFile == [kind |-> "corrupt"]

\* The document written from the entries without the last one.
save_leaderboard_WithoutLast(entries, stats, now) ==
    [kind |-> "json",
     entries |-> [i \in 1..(Len(entries) - 1) |-> asdict(entries[i])],
     stats |-> stats,
     last_updated |-> now]

\* Lines 64-70: the document save_leaderboard writes.
save_leaderboard(entries, stats, now) ==
    [kind |-> "json",
     entries |-> [i \in DOMAIN entries |-> asdict(entries[i])],
     stats |-> stats,
     last_updated |-> now]

\* The sample users of seed_leaderboard_data (line 457); the source lists ten,
\* "user_001" to "user_010", the model follows the first.
sample_users == <<[user_id |-> "user_001", affiliation |-> "Lancaster University"]>>

\* What the random module gives seed_leaderboard_data for one sample user.
SeedDraws == [boundary_scores : {BGreen, BGrey}, submission_date : Times,
              session_count : {1, 2}]

\* Lines 470-495: the seeded entries; draws[i] is drawn for sample_users[i].
SeedEntries(seed, draws) ==
    [i \in DOMAIN sample_users |->
        LET boundary_scores == draws[i].boundary_scores
            vals == [k \in DOMAIN BoundaryKeys |-> boundary_scores[BoundaryKeys[k]]]
        IN  LeaderboardEntry(sample_users[i].user_id,
                             _generate_pseudonym(seed, sample_users[i].user_id),
                             Round1(SumSeq(vals), Len(vals)),
                             boundary_scores,
                             draws[i].submission_date,
                             draws[i].session_count,
                             sample_users[i].affiliation)]

\* Lines 37-55: what load_leaderboard leaves in memory and in the file.
load_leaderboard(file, seed, draws, now) ==
    IF file.kind = "json"
    THEN [entries |-> [i \in DOMAIN file.entries |-> EntryFromDict(file.entries[i])],
          stats |-> file.stats,
          file |-> file]
    ELSE IF file.kind = "missing"
    THEN LET entries == SeedEntries(seed, draws)
             stats == _update_leaderboard_stats(entries, EmptyDict, now)
         IN  [entries |-> entries, stats |-> stats,
              file |-> save_leaderboard(entries, stats, now)]
    ELSE [entries |-> << >>, stats |-> EmptyDict,
          file |-> save_leaderboard(<< >>, EmptyDict, now)]

\* ------------------------------------------------------------------------
\* Scoring: numbers, strings and the constant tables (backend/ecoscore.py)
\* ------------------------------------------------------------------------

\* The scores of ecoscore.py are Python floats; the model computes them as
\* exact fractions n / d in lowest terms with d > 0.
RECURSIVE GCD(_, _)
GCD(a, b) == IF b = 0 THEN a ELSE GCD(b, a % b)

Abs(x) == IF x < 0 THEN -x ELSE x

Q(n, d) ==
    LET g == GCD(Abs(n), d)
    IN  [n |-> n \div g, d |-> d \div g]

LCM(a, b) == (a \div GCD(a, b)) * b

QAdd(x, y) ==
    LET l == LCM(x.d, y.d)
    IN  Q(x.n * (l \div x.d) + y.n * (l \div y.d), l)

QSub(x, y) == QAdd(x, [n |-> -y.n, d |-> y.d])

\* x * y, the cross factors cancelled before the products are taken.
QMul(x, y) ==
    LET g1 == GCD(Abs(x.n), y.d)
        g2 == GCD(Abs(y.n), x.d)
    IN  Q((x.n \div g1) * (y.n \div g2), (x.d \div g2) * (y.d \div g1))

\* x / y for y > 0
QDiv(x, y) == QMul(x, [n |-> y.d, d |-> y.n])

QLe(x, y) ==
    LET l == LCM(x.d, y.d)
    IN  x.n * (l \div x.d) <= y.n * (l \div y.d)

QLt(x, y) == ~QLe(y, x)

\* min(x, y) and max(x, y); of two equal values Python returns the first.
QMin(x, y) == IF QLe(x, y) THEN x ELSE y

QMax(x, y) == IF QLe(y, x) THEN x ELSE y

RECURSIVE QSum(_)
QSum(s) == IF s = << >> THEN Q(0, 1) ELSE QAdd(Head(s), QSum(Tail(s)))

\* str.lower() on the ASCII letters.
UpperLetters == "ABCDEFGHIJKLMNOPQRSTUVWXYZ"

LowerLetters == "abcdefghijklmnopqrstuvwxyz"

LowerChar(c) ==
    IF \E i \in 1..Len(UpperLetters) : SubSeq(UpperLetters, i, i) = c
    THEN LET i == CHOOSE i \in 1..Len(UpperLetters) : SubSeq(UpperLetters, i, i) = c
         IN  SubSeq(LowerLetters, i, i)
    ELSE c

RECURSIVE lower(_)
lower(str) ==
    IF Len(str) = 0 THEN ""
    ELSE LowerChar(SubSeq(str, 1, 1)) \o lower(SubSeq(str, 2, Len(str)))

\* needle in hay, for two str: hay holds needle as a run of characters.
StrIn(needle, hay) ==
    \E i \in 0..(Len(hay) - Len(needle)) : SubSeq(hay, i + 1, i + Len(needle)) = needle

\* Lines 22-63: PLANETARY_BOUNDARIES as the module defines it (weight as a
\* fraction; name, units and description are not read by the scoring).
PlanetaryBoundaries ==
    [ climate |-> [name |-> "Climate Change", weight |-> Q(25, 100),
         safe_operating_space |-> Q(350, 1), current_global_status |-> Q(415, 1)],
     biosphere |-> [name |-> "Biosphere Integrity", weight |-> Q(25, 100),
         safe_operating_space |-> Q(10, 1), current_global_status |-> Q(100, 1)],
     biogeochemical |-> [name |-> "Biogeochemical Flows", weight |-> Q(20, 100),
         safe_operating_space |-> Q(62, 1), current_global_status |-> Q(150, 1)],
     freshwater |-> [name |-> "Freshwater Use", weight |-> Q(15, 100),
         safe_operating_space |-> Q(4000, 1), current_global_status |-> Q(2600, 1)],
     aerosols |-> [name |-> "Atmospheric Aerosol Loading", weight |-> Q(15, 100),
         safe_operating_space |-> Q(25, 1), current_global_status |-> Q(30, 1)]]

\* Lines 67-298: the literal FACTOR_TABLES is bound to, each table in the order
\* of its keys.
FactorTablesLiteral ==
    [ food |-> <<
          [category |-> "plant-based", scores |-> [climate |-> 12, biosphere |-> 18, biogeochemical |-> 20,
              freshwater |-> 25, aerosols |-> 15,
              description |-> "Plant-based diet with minimal processing"]],
          [category |-> "mixed", scores |-> [climate |-> 48, biosphere |-> 42, biogeochemical |-> 45,
              freshwater |-> 52, aerosols |-> 38,
              description |-> "Balanced omnivore diet"]],
          [category |-> "meat-heavy", scores |-> [climate |-> 82, biosphere |-> 78, biogeochemical |-> 72,
              freshwater |-> 68, aerosols |-> 58,
              description |-> "High meat consumption diet"]],
          [category |-> "snack", scores |-> [climate |-> 35, biosphere |-> 32, biogeochemical |-> 40,
              freshwater |-> 38, aerosols |-> 45,
              description |-> "Processed snack foods"]],
          [category |-> "drink", scores |-> [climate |-> 22, biosphere |-> 28, biogeochemical |-> 30,
              freshwater |-> 42, aerosols |-> 25,
              description |-> "Beverages including dairy and non-dairy"]],
          [category |-> "packaged", scores |-> [climate |-> 58, biosphere |-> 52, biogeochemical |-> 62,
              freshwater |-> 48, aerosols |-> 68,
              description |-> "Heavily packaged processed foods"]],
          [category |-> "organic", scores |-> [climate |-> 18, biosphere |-> 12, biogeochemical |-> 15,
              freshwater |-> 22, aerosols |-> 12,
              description |-> "Certified organic produce"]],
          [category |-> "local", scores |-> [climate |-> 20, biosphere |-> 25, biogeochemical |-> 28,
              freshwater |-> 30, aerosols |-> 20,
              description |-> "Locally sourced food (< 50km)"]],
          [category |-> "seafood", scores |-> [climate |-> 42, biosphere |-> 65, biogeochemical |-> 35,
              freshwater |-> 15, aerosols |-> 40,
              description |-> "Fish and seafood products"]]>>,
     fashion |-> <<
          [category |-> "cotton", scores |-> [climate |-> 42, biosphere |-> 38, biogeochemical |-> 52,
              freshwater |-> 68, aerosols |-> 32,
              description |-> "Conventional cotton textiles"]],
          [category |-> "polyester", scores |-> [climate |-> 72, biosphere |-> 58, biogeochemical |-> 38,
              freshwater |-> 28, aerosols |-> 78,
              description |-> "Synthetic polyester fabrics"]],
          [category |-> "wool", scores |-> [climate |-> 58, biosphere |-> 68, biogeochemical |-> 62,
              freshwater |-> 42, aerosols |-> 38,
              description |-> "Natural wool textiles"]],
          [category |-> "linen", scores |-> [climate |-> 22, biosphere |-> 18, biogeochemical |-> 28,
              freshwater |-> 32, aerosols |-> 18,
              description |-> "Linen and hemp textiles"]],
          [category |-> "leather", scores |-> [climate |-> 78, biosphere |-> 82, biogeochemical |-> 68,
              freshwater |-> 58, aerosols |-> 48,
              description |-> "Animal leather products"]],
          [category |-> "recycled", scores |-> [climate |-> 15, biosphere |-> 22, biogeochemical |-> 18,
              freshwater |-> 22, aerosols |-> 25,
              description |-> "Recycled textile materials"]],
          [category |-> "synthetic", scores |-> [climate |-> 68, biosphere |-> 52, biogeochemical |-> 32,
              freshwater |-> 22, aerosols |-> 82,
              description |-> "Various synthetic materials"]],
          [category |-> "organic-cotton", scores |-> [climate |-> 28, biosphere |-> 22, biogeochemical |-> 32,
              freshwater |-> 45, aerosols |-> 20,
              description |-> "Organic cotton textiles"]],
          [category |-> "fast-fashion", scores |-> [climate |-> 75, biosphere |-> 65, biogeochemical |-> 55,
              freshwater |-> 50, aerosols |-> 80,
              description |-> "Fast fashion items with short lifecycle"]]>>,
     mobility |-> <<
          [category |-> "walk", scores |-> [climate |-> 2, biosphere |-> 5, biogeochemical |-> 3,
              freshwater |-> 3, aerosols |-> 2,
              description |-> "Walking as primary transport"]],
          [category |-> "bike", scores |-> [climate |-> 8, biosphere |-> 12, biogeochemical |-> 8,
              freshwater |-> 8, aerosols |-> 6,
              description |-> "Cycling including bike production"]],
          [category |-> "bus", scores |-> [climate |-> 32, biosphere |-> 28, biogeochemical |-> 22,
              freshwater |-> 18, aerosols |-> 38,
              description |-> "Public bus transport"]],
          [category |-> "train", scores |-> [climate |-> 22, biosphere |-> 18, biogeochemical |-> 12,
              freshwater |-> 12, aerosols |-> 22,
              description |-> "Rail transport including electric"]],
          [category |-> "car", scores |-> [climate |-> 72, biosphere |-> 58, biogeochemical |-> 48,
              freshwater |-> 38, aerosols |-> 78,
              description |-> "Personal gasoline vehicle"]],
          [category |-> "plane", scores |-> [climate |-> 92, biosphere |-> 68, biogeochemical |-> 38,
              freshwater |-> 28, aerosols |-> 82,
              description |-> "Air travel per km"]],
          [category |-> "electric_car", scores |-> [climate |-> 32, biosphere |-> 38, biogeochemical |-> 28,
              freshwater |-> 22, aerosols |-> 35,
              description |-> "Electric vehicle including battery impact"]],
          [category |-> "carpool", scores |-> [climate |-> 45, biosphere |-> 40, biogeochemical |-> 35,
              freshwater |-> 30, aerosols |-> 50,
              description |-> "Shared car transport"]],
          [category |-> "motorcycle", scores |-> [climate |-> 55, biosphere |-> 45, biogeochemical |-> 40,
              freshwater |-> 35, aerosols |-> 65,
              description |-> "Motorcycle transport"]]>>,
     career |-> <<
          [category |-> "renewable-energy", scores |-> [climate |-> 15, biosphere |-> 25, biogeochemical |-> 20,
              freshwater |-> 30, aerosols |-> 22,
              description |-> "Renewable energy sector"]],
          [category |-> "tech", scores |-> [climate |-> 42, biosphere |-> 28, biogeochemical |-> 22,
              freshwater |-> 32, aerosols |-> 48,
              description |-> "Technology and software"]],
          [category |-> "finance", scores |-> [climate |-> 32, biosphere |-> 22, biogeochemical |-> 18,
              freshwater |-> 22, aerosols |-> 28,
              description |-> "Financial services"]],
          [category |-> "healthcare", scores |-> [climate |-> 38, biosphere |-> 32, biogeochemical |-> 42,
              freshwater |-> 38, aerosols |-> 52,
              description |-> "Healthcare and medical"]],
          [category |-> "education", scores |-> [climate |-> 22, biosphere |-> 18, biogeochemical |-> 12,
              freshwater |-> 18, aerosols |-> 22,
              description |-> "Education and research"]],
          [category |-> "manufacturing", scores |-> [climate |-> 78, biosphere |-> 72, biogeochemical |-> 82,
              freshwater |-> 68, aerosols |-> 88,
              description |-> "Manufacturing and heavy industry"]],
          [category |-> "agriculture", scores |-> [climate |-> 52, biosphere |-> 68, biogeochemical |-> 78,
              freshwater |-> 82, aerosols |-> 58,
              description |-> "Agriculture and farming"]],
          [category |-> "fossil-fuel", scores |-> [climate |-> 88, biosphere |-> 65, biogeochemical |-> 58,
              freshwater |-> 45, aerosols |-> 82,
              description |-> "Fossil fuel industry"]],
          [category |-> "construction", scores |-> [climate |-> 68, biosphere |-> 58, biogeochemical |-> 65,
              freshwater |-> 52, aerosols |-> 72,
              description |-> "Construction and building"]],
          [category |-> "consulting", scores |-> [climate |-> 35, biosphere |-> 25, biogeochemical |-> 20,
              freshwater |-> 25, aerosols |-> 32,
              description |-> "Business consulting services"]]>>,
     lifestyle |-> <<
          [category |-> "minimal", scores |-> [climate |-> 15, biosphere |-> 20, biogeochemical |-> 18,
              freshwater |-> 22, aerosols |-> 18,
              description |-> "Minimalist lifestyle choices"]],
          [category |-> "average", scores |-> [climate |-> 50, biosphere |-> 45, biogeochemical |-> 48,
              freshwater |-> 52, aerosols |-> 50,
              description |-> "Average consumption patterns"]],
          [category |-> "high-consumption", scores |-> [climate |-> 78, biosphere |-> 72, biogeochemical |-> 68,
              freshwater |-> 75, aerosols |-> 80,
              description |-> "High consumption lifestyle"]],
          [category |-> "sustainable", scores |-> [climate |-> 25, biosphere |-> 22, biogeochemical |-> 28,
              freshwater |-> 30, aerosols |-> 25,
              description |-> "Actively sustainable choices"]]>>]

\* FACTOR_TABLES with its numbers as fractions.
FactorTables ==
    [t \in DOMAIN FactorTablesLiteral |->
        [i \in DOMAIN FactorTablesLiteral[t] |->
            LET row == FactorTablesLiteral[t][i]
            IN  [category |-> row.category,
                 scores |-> [k \in DOMAIN row.scores |->
                                IF k = "description" THEN row.scores[k]
                                ELSE Q(row.scores[k], 1)]]]]

\* ------------------------------------------------------------------------
\* State
\* ------------------------------------------------------------------------

VARIABLES
    pc,                   \* per process: "up" (constructed, serving) or "down"
    hash_seed,            \* per process: the hash seed of its current run
    leaderboard_entries,  \* per process: self.leaderboard_entries
    leaderboard_stats,    \* per process: self.leaderboard_stats
    leaderboard_file,     \* the contents of leaderboard.json
    response,             \* what the latest request returned to its caller
    query,                \* history: limit and filter of the leaderboard query just answered
    submitted,            \* history: per user, the submit_score calls made
    first_pseudonym,      \* history: per user, what the first _generate_pseudonym call returned
    initial_users,        \* history: the users the store held when the run began
    failed_request,       \* history: the submission that just failed to persist
    FACTOR_TABLES,        \* ecoscore.FACTOR_TABLES, a module-level dict
    PLANETARY_BOUNDARIES, \* ecoscore.PLANETARY_BOUNDARIES, a module-level dict
    request,              \* the latest scoring call: its name, its argument as passed
                          \* and the argument object as the caller holds it afterwards
    result,               \* what the latest scoring call returned or raised
    first_result          \* history: per item remembered, what its first score_item call returned

vars == <<pc, hash_seed, leaderboard_entries, leaderboard_stats, leaderboard_file,
          response, query, submitted, first_pseudonym, initial_users, failed_request,
          FACTOR_TABLES, PLANETARY_BOUNDARIES, request, result, first_result>>

\* What the scoring module holds and the scoring calls leave behind.
scoring_vars == <<FACTOR_TABLES, PLANETARY_BOUNDARIES, request, result, first_result>>

\* What the leaderboard store holds and its requests leave behind.
store_vars == <<pc, hash_seed, leaderboard_entries, leaderboard_stats, leaderboard_file,
                response, query, submitted, first_pseudonym, initial_users, failed_request>>

\* No scoring call has been made.
NoRequest == EmptyDict

NoResult == EmptyDict

\* The scoring module as imported (app.py line 18), no call made yet.
ScoringInit ==
    /\ FACTOR_TABLES = FactorTables
    /\ PLANETARY_BOUNDARIES = PlanetaryBoundaries
    /\ request = NoRequest
    /\ result = NoResult
    /\ first_result = EmptyDict

\* No request has been answered yet.
NoResponse == EmptyDict

\* The latest request was no leaderboard query.
NoQuery == EmptyDict

\* The latest request was no submission whose save raised.
NoFailedRequest == EmptyDict

\* Lines 762-763: an exception leaves submit_score_endpoint as HTTP 500.
HTTPError(detail) == [status_code |-> 500, detail |-> "Error submitting score: " \o detail]

\* No submit_score call yet (best means nothing while count is 0).
NoSubmissions == [u \in Users |-> [count |-> 0, best |-> 0]]

UserIdsOf(entries) == {entries[i].user_id : i \in DOMAIN entries}

\* Line 501, product_db = ProductDatabase(): process p starts and loads the file.
Construct(p, seed, draws, now) ==
    LET loaded == load_leaderboard(leaderboard_file, seed, draws, now)
    IN  /\ pc' = [pc EXCEPT ![p] = "up"]
        /\ hash_seed' = [hash_seed EXCEPT ![p] = seed]
        /\ leaderboard_entries' = [leaderboard_entries EXCEPT ![p] = loaded.entries]
        /\ leaderboard_stats' = [leaderboard_stats EXCEPT ![p] = loaded.stats]
        /\ leaderboard_file' = loaded.file
        /\ response' = NoResponse
        /\ query' = NoQuery
        /\ failed_request' = NoFailedRequest

\* The state after the first process is constructed, whatever it found on
\* disk: no file (the store is seeded), an unreadable file, or a file with no
\* entries.  The first run has hash seed 0; every later run draws its own.
Init ==
    \E seed \in {0}, now \in Times, draws \in [DOMAIN sample_users -> SeedDraws],
       found \in {MissingFile, CorruptFile} \cup {save_leaderboard(<< >>, EmptyDict, t) : t \in Times} :
        LET loaded == load_leaderboard(found, seed, draws, now)
        IN  /\ pc = [p \in Procs |-> IF p = Main THEN "up" ELSE "down"]
            /\ hash_seed = [p \in Procs |-> IF p = Main THEN seed ELSE 0]
            /\ leaderboard_entries = [p \in Procs |-> IF p = Main THEN loaded.entries ELSE << >>]
            /\ leaderboard_stats = [p \in Procs |-> IF p = Main THEN loaded.stats ELSE EmptyDict]
            /\ leaderboard_file = loaded.file
            /\ response = NoResponse
            /\ query = NoQuery
            /\ submitted = NoSubmissions
            /\ first_pseudonym = [u \in Users |-> None]
            /\ initial_users = UserIdsOf(loaded.entries)
            /\ failed_request = NoFailedRequest
            /\ ScoringInit

\* ------------------------------------------------------------------------
\* Requests and process steps
\* ------------------------------------------------------------------------

\* The history of submit_score calls, after one more for user_id.
Recorded(user_id, composite_score) ==
    [submitted EXCEPT ![user_id] =
        [count |-> @.count + 1,
         best |-> IF @.count = 0 THEN composite_score
                  ELSE IF composite_score < @.best THEN composite_score ELSE @.best]]

\* The model follows a user for MaxSessions sessions.
WithinSessions(p, user_id) ==
    LET i == FindEntry(leaderboard_entries[p], user_id)
    IN  /\ submitted[user_id].count < MaxSessions
        /\ IF i = 0 THEN TRUE ELSE leaderboard_entries[p][i].session_count < MaxSessions

\* The update of the memory undone when the save that follows raises: the
\* entries and statistics stay as they were.
SubmitInMemory_RolledBack(p, user_id, composite_score, boundary_scores, campus_affiliation, now) ==
    /\ UNCHANGED <<leaderboard_entries, leaderboard_stats>>
    /\ submitted' = Recorded(user_id, composite_score)
    /\ first_pseudonym' = [first_pseudonym EXCEPT ![user_id] =
           IF @ = None THEN _generate_pseudonym(hash_seed[p], user_id) ELSE @]

\* Lines 274-321 for process p: everything submit_score does before it saves.
SubmitInMemory(p, user_id, composite_score, boundary_scores, campus_affiliation, now) ==
    LET out == SubmitOutcome(leaderboard_entries[p], hash_seed[p], user_id, composite_score, boundary_scores, campus_affiliation, now)
    IN  /\ leaderboard_entries' = [leaderboard_entries EXCEPT ![p] = out.entries]
        /\ leaderboard_stats' = [leaderboard_stats EXCEPT ![p] =
               _update_leaderboard_stats(out.entries, leaderboard_stats[p], now)]
        /\ submitted' = Recorded(user_id, composite_score)
        /\ first_pseudonym' = [first_pseudonym EXCEPT ![user_id] =
               IF @ = None THEN _generate_pseudonym(hash_seed[p], user_id) ELSE @]

\* POST /api/submit-score handled to the end: submit_score updates the entry,
\* recomputes the statistics, saves the file and returns.
submit_score(p, user_id, composite_score, boundary_scores, campus_affiliation, now) ==
    /\ pc[p] = "up"
    /\ WithinSessions(p, user_id)
    /\ SubmitInMemory(p, user_id, composite_score, boundary_scores, campus_affiliation, now)
    /\ leaderboard_file' = save_leaderboard(leaderboard_entries'[p], leaderboard_stats'[p], now)
    /\ response' = SubmitOutcome(leaderboard_entries[p], hash_seed[p], user_id, composite_score, boundary_scores, campus_affiliation, now).result
    /\ query' = NoQuery
    /\ failed_request' = NoFailedRequest
    /\ UNCHANGED <<pc, hash_seed, initial_users>>
    /\ UNCHANGED scoring_vars

\* Lines 751-752 and 762-763: a payload without user_id or composite_score
\* changes nothing and is answered with an error.
submit_rejected(p) ==
    /\ pc[p] = "up"
    /\ response' = HTTPError("400: user_id and composite_score are required")
    /\ query' = NoQuery
    /\ failed_request' = NoFailedRequest
    /\ UNCHANGED <<pc, hash_seed, leaderboard_entries, leaderboard_stats,
                   leaderboard_file, submitted, first_pseudonym, initial_users>>
    /\ UNCHANGED scoring_vars

\* GET /api/leaderboard
get_leaderboard_endpoint(p, limit, boundary_filter, now) ==
    /\ pc[p] = "up"
    /\ UNCHANGED <<pc, hash_seed, leaderboard_entries, leaderboard_stats,
                   leaderboard_file, submitted, first_pseudonym, initial_users>>
    /\ failed_request' = NoFailedRequest
    /\ query' = [limit |-> limit, boundary_filter |-> boundary_filter]
    /\ response' = get_leaderboard(leaderboard_entries[p], limit, boundary_filter, now)
    /\ UNCHANGED scoring_vars

\* Process p ends (a shutdown): what it held in memory is gone.
Stop(p) ==
    /\ pc[p] = "up"
    /\ pc' = [pc EXCEPT ![p] = "down"]
    /\ hash_seed' = [hash_seed EXCEPT ![p] = 0]
    /\ leaderboard_entries' = [leaderboard_entries EXCEPT ![p] = << >>]
    /\ leaderboard_stats' = [leaderboard_stats EXCEPT ![p] = EmptyDict]
    /\ response' = NoResponse
    /\ query' = NoQuery
    /\ failed_request' = NoFailedRequest
    /\ UNCHANGED <<leaderboard_file, submitted, first_pseudonym, initial_users>>
    /\ UNCHANGED scoring_vars

\* Process p starts again: a new hash seed, and load_leaderboard.
Start(p, seed, draws, now) ==
    /\ pc[p] = "down"
    /\ Construct(p, seed, draws, now)
    /\ UNCHANGED <<submitted, first_pseudonym, initial_users>>
    /\ UNCHANGED scoring_vars

\* The queries GET /api/leaderboard is sent: limit and boundary filter.
Queries ==
    {[limit |-> 50, boundary_filter |-> None],
     [limit |-> 50, boundary_filter |-> "climate"],
     [limit |-> 1, boundary_filter |-> "carbon"],
     [limit |-> -1, boundary_filter |-> "climate"]}

\* One server process, no I/O failure, no restart.
Next ==
    \/ \E u \in Users, r \in Payloads, now \in Times :
          submit_score(Main, u, r.composite_score, r.boundary_scores, r.campus_affiliation, now)
    \/ submit_rejected(Main)
    \/ \E q \in Queries, now \in Times :
          get_leaderboard_endpoint(Main, q.limit, q.boundary_filter, now)

Spec == Init /\ [][Next]_vars

\* The time of the requests of the runs that follow restarts.
LaterTimes == {t \in Times : t.date = "2026-11-03"}

\* One server process that is shut down and started again, no I/O failure.
NextRestart ==
    \/ \E u \in Users, r \in Payloads, now \in LaterTimes :
          submit_score(Main, u, r.composite_score, r.boundary_scores, r.campus_affiliation, now)
    \/ submit_rejected(Main)
    \/ \E q \in {q \in Queries : q.limit = 50 /\ q.boundary_filter = None}, now \in LaterTimes :
          get_leaderboard_endpoint(Main, q.limit, q.boundary_filter, now)
    \/ Stop(Main)
    \/ \E seed \in HashSeeds, draws \in [DOMAIN sample_users -> SeedDraws], now \in LaterTimes :
          Start(Main, seed, draws, now)

RestartSpec == Init /\ [][NextRestart]_vars

\* How far save_leaderboard got when it raised: open(file, 'w') failed and the
\* file is as it was, or json.dump failed after the file was truncated.
WriteFailures ==
    {[reached |-> "open", error |-> "[Errno 13] Permission denied: 'leaderboard.json'"],
     [reached |-> "dump", error |-> "[Errno 28] No space left on device"]}

\* Lines 66-70 interrupted: the file an unfinished save_leaderboard leaves.
InterruptedFile(file, reached, entries, stats, now) ==
    IF reached = "open" THEN file
    ELSE IF reached = "dump" THEN CorruptFile
    ELSE save_leaderboard(entries, stats, now)

\* POST /api/submit-score when save_leaderboard (line 324) raises: the memory
\* was updated at lines 287-321, the exception reaches the endpoint's handler
\* (app.py 762-763), which answers with an error.
submit_score_save_fails(p, user_id, composite_score, boundary_scores, campus_affiliation, now, failure) ==
    /\ pc[p] = "up"
    /\ WithinSessions(p, user_id)
    /\ SubmitInMemory(p, user_id, composite_score, boundary_scores, campus_affiliation, now)
    /\ leaderboard_file' = InterruptedFile(leaderboard_file, failure.reached,
                                           leaderboard_entries'[p], leaderboard_stats'[p], now)
    /\ response' = HTTPError(failure.error)
    /\ query' = NoQuery
    /\ failed_request' = [user_id |-> user_id, composite_score |-> composite_score,
                          boundary_scores |-> boundary_scores,
                          campus_affiliation |-> campus_affiliation]
    /\ UNCHANGED <<pc, hash_seed, initial_users>>
    /\ UNCHANGED scoring_vars

\* How far save_leaderboard got when the process was killed.
CrashPoints == {"open", "dump", "done"}

\* The process is killed while submit_score saves (line 324): its memory is
\* gone, nothing is answered, the file is what the write had made of it.
submit_score_crash(p, user_id, composite_score, boundary_scores, campus_affiliation, now, reached) ==
    LET out == SubmitOutcome(leaderboard_entries[p], hash_seed[p], user_id, composite_score, boundary_scores, campus_affiliation, now)
        stats == _update_leaderboard_stats(out.entries, leaderboard_stats[p], now)
    IN  /\ pc[p] = "up"
        /\ WithinSessions(p, user_id)
        /\ leaderboard_file' = InterruptedFile(leaderboard_file, reached, out.entries, stats, now)
        /\ pc' = [pc EXCEPT ![p] = "down"]
        /\ hash_seed' = [hash_seed EXCEPT ![p] = 0]
        /\ leaderboard_entries' = [leaderboard_entries EXCEPT ![p] = << >>]
        /\ leaderboard_stats' = [leaderboard_stats EXCEPT ![p] = EmptyDict]
        /\ submitted' = Recorded(user_id, composite_score)
        /\ first_pseudonym' = [first_pseudonym EXCEPT ![user_id] =
               IF @ = None THEN _generate_pseudonym(hash_seed[p], user_id) ELSE @]
        /\ response' = NoResponse
        /\ query' = NoQuery
        /\ failed_request' = NoFailedRequest
        /\ UNCHANGED initial_users
        /\ UNCHANGED scoring_vars

\* The user whose submissions are followed where writes fail or two
\* processes serve.
OneUser == {"u1"}

\* One server process whose writes can fail and which can be killed while it
\* writes, and is then started again.
NextFault ==
    \/ \E u \in OneUser, r \in Payloads, now \in LaterTimes :
          submit_score(Main, u, r.composite_score, r.boundary_scores, r.campus_affiliation, now)
    \/ \E u \in OneUser, r \in Payloads, now \in LaterTimes, failure \in WriteFailures :
          submit_score_save_fails(Main, u, r.composite_score, r.boundary_scores, r.campus_affiliation, now, failure)
    \/ \E u \in OneUser, r \in Payloads, now \in LaterTimes, reached \in CrashPoints :
          submit_score_crash(Main, u, r.composite_score, r.boundary_scores, r.campus_affiliation, now, reached)
    \/ \E q \in {q \in Queries : q.limit = 50 /\ q.boundary_filter = None}, now \in LaterTimes :
          get_leaderboard_endpoint(Main, q.limit, q.boundary_filter, now)
    \/ \E seed \in HashSeeds, draws \in [DOMAIN sample_users -> SeedDraws], now \in LaterTimes :
          Start(Main, seed, draws, now)

FaultSpec == Init /\ [][NextFault]_vars

\* The second server process.
Other == "p2"

\* Two server processes, each constructed from the file the two share and each
\* with its own product_db; a process handles one request at a time
\* (submit_score runs to its end inside the endpoint's coroutine).
NextMulti ==
    \/ \E p \in Procs, u \in OneUser, r \in Payloads, now \in LaterTimes :
          submit_score(p, u, r.composite_score, r.boundary_scores, r.campus_affiliation, now)
    \/ \E p \in Procs, q \in {q \in Queries : q.limit = 50 /\ q.boundary_filter = None}, now \in LaterTimes :
          get_leaderboard_endpoint(p, q.limit, q.boundary_filter, now)
    \/ \E seed \in HashSeeds, draws \in [DOMAIN sample_users -> SeedDraws], now \in LaterTimes :
          Start(Other, seed, draws, now)

MultiSpec == Init /\ [][NextMulti]_vars

\* ------------------------------------------------------------------------
\* score_item (backend/ecoscore.py)
\* ------------------------------------------------------------------------

\* A dict the code holds is an object: which dict it is (ref) and what it
\* holds (value).  ref is "new" for a dict the call created, "item" for the
\* caller's item, <<factor_key, i>> for the scores of row i of a table of
\* FACTOR_TABLES.
Obj(ref, value) == [ref |-> ref, value |-> value]

\* The same object handed on where the code copies it.
dict_copy_SameObject(obj) == obj

\* dict.copy(): a new dict with the same items.
dict_copy(obj) == Obj("new", obj.value)

\* d.update(e) and del d[key], on values.
DictUpdate(d, e) == [k \in DOMAIN d \cup DOMAIN e |-> IF k \in DOMAIN e THEN e[k] ELSE d[k]]

DictDel(d, key) == [k \in DOMAIN d \ {key} |-> d[k]]

SetMin(S) == CHOOSE m \in S : \A x \in S : m <= x

\* Lines 572-588
type_mapping ==
    [meal |-> "food", food |-> "food", beverage |-> "food", drink |-> "food",
     outfit |-> "fashion", clothing |-> "fashion", apparel |-> "fashion",
     transport |-> "mobility", mobility |-> "mobility", travel |-> "mobility",
     job |-> "career", career |-> "career", work |-> "career",
     lifestyle |-> "lifestyle", habit |-> "lifestyle"]

\* Lines 567-569, 607 and 660: the exception score_item raises on item, None
\* when it raises none.  str.lower() exists on str only and None is not
\* iterable.
ItemRaises(item) ==
    LET materials == DictGet(item, "materials", << >>)
    IN  IF DictGet(item, "type", "") = None THEN "AttributeError"
        ELSE IF DictGet(item, "category", "") = None THEN "AttributeError"
        ELSE IF materials = None THEN "TypeError"
        ELSE IF \E i \in DOMAIN materials : materials[i] = None THEN "AttributeError"
        ELSE None

\* Line 594: the rows whose key is category.
ExactMatches(factor_table, category) ==
    {i \in DOMAIN factor_table : factor_table[i].category = category}

\* Line 599: the rows whose key holds text or is held by it.
PartialMatches(factor_table, text) ==
    {i \in DOMAIN factor_table :
        StrIn(text, factor_table[i].category) \/ StrIn(factor_table[i].category, text)}

\* Lines 604-612: the row the first matching material selects, 0 when no
\* material matches.
MaterialMatch(factor_table, materials) ==
    LET matching == {m \in DOMAIN materials : PartialMatches(factor_table, lower(materials[m])) # {}}
    IN  IF matching = {} THEN 0
        ELSE SetMin(PartialMatches(factor_table, lower(materials[SetMin(matching)])))

\* The materials tried before the parts of keys.
MatchedRow_MaterialsBeforeParts(factor_table, category, materials) ==
    IF ExactMatches(factor_table, category) # {}
    THEN SetMin(ExactMatches(factor_table, category))
    ELSE IF MaterialMatch(factor_table, materials) # 0
    THEN MaterialMatch(factor_table, materials)
    ELSE IF PartialMatches(factor_table, category) # {}
    THEN SetMin(PartialMatches(factor_table, category))
    ELSE 0

\* Lines 593-612: the row of factor_table that category and materials select,
\* 0 when none does.
MatchedRow(factor_table, category, materials) ==
    IF ExactMatches(factor_table, category) # {}
    THEN SetMin(ExactMatches(factor_table, category))
    ELSE IF PartialMatches(factor_table, category) # {}
    THEN SetMin(PartialMatches(factor_table, category))
    ELSE MaterialMatch(factor_table, materials)

\* Lines 617-625: the mean, per boundary, of every row of factor_table that
\* has the boundary; 50 for a boundary no row has.
AverageScores(factor_table, boundaries) ==
    [boundary \in DOMAIN boundaries |->
        LET having == {i \in DOMAIN factor_table : boundary \in DOMAIN factor_table[i].scores}
            boundary_scores == [i \in DOMAIN factor_table |->
                                   IF i \in having THEN factor_table[i].scores[boundary]
                                   ELSE Q(0, 1)]
        IN  IF having # {}
            THEN QDiv(QSum(boundary_scores), Q(Cardinality(having), 1))
            ELSE Q(50, 1)]

\* Lines 590-627: base_scores before the modifiers, as an object.
BaseScores(tables, boundaries, factor_key, category, materials) ==
    LET factor_table == tables[factor_key]
        i == MatchedRow(factor_table, category, materials)
    IN  IF i # 0 THEN dict_copy(Obj(<<factor_key, i>>, factor_table[i].scores))
        ELSE IF factor_table # << >> THEN Obj("new", AverageScores(factor_table, boundaries))
        ELSE Obj("new", [boundary \in DOMAIN boundaries |-> Q(50, 1)])

\* Lines 665-666 and 671-672: the keywords of the two modifiers.
PositiveKeywords == {"local", "organic", "recycled", "sustainable", "eco"}

NegativeKeywords == {"fast", "processed", "imported", "synthetic"}

\* any(keyword in category or any(keyword in mat for mat in materials) ...)
HasKeyword(keywords, category, materials) ==
    \E keyword \in keywords :
        \/ StrIn(keyword, category)
        \/ \E m \in DOMAIN materials : StrIn(keyword, materials[m])

\* Lines 667-668: every score times 0.8, not below 5.
Reduced(scores) == [b \in DOMAIN scores |-> QMax(Q(5, 1), QMul(scores[b], Q(8, 10)))]

\* Every score times 1.2, with no ceiling.
Increased_Unclamped(scores) == [b \in DOMAIN scores |-> QMul(scores[b], Q(12, 10))]

\* Lines 673-674: every score times 1.2, not above 95.
Increased(scores) == [b \in DOMAIN scores |-> QMin(Q(95, 1), QMul(scores[b], Q(12, 10)))]

\* The negative modifier applied before the positive one.
apply_contextual_modifiers_NegativeFirst(base_scores, item) ==
    LET modified_scores == dict_copy(base_scores)
        without == IF "description" \in DOMAIN modified_scores.value
                   THEN DictDel(modified_scores.value, "description")
                   ELSE modified_scores.value
        given == DictGet(item, "materials", << >>)
        materials == [m \in DOMAIN given |-> lower(given[m])]
        category == lower(DictGet(item, "category", ""))
        increased == IF HasKeyword(NegativeKeywords, category, materials)
                     THEN Increased(without) ELSE without
        reduced == IF HasKeyword(PositiveKeywords, category, materials)
                   THEN Reduced(increased) ELSE increased
    IN  Obj(modified_scores.ref, reduced)

\* Lines 651-680: the object apply_contextual_modifiers returns.  What it
\* writes, it writes to modified_scores.
apply_contextual_modifiers(base_scores, item) ==
    LET modified_scores == dict_copy(base_scores)
        without == IF "description" \in DOMAIN modified_scores.value
                   THEN DictDel(modified_scores.value, "description")
                   ELSE modified_scores.value
        given == DictGet(item, "materials", << >>)
        materials == [m \in DOMAIN given |-> lower(given[m])]
        category == lower(DictGet(item, "category", ""))
        reduced == IF HasKeyword(PositiveKeywords, category, materials)
                   THEN Reduced(without) ELSE without
        increased == IF HasKeyword(NegativeKeywords, category, materials)
                     THEN Increased(reduced) ELSE reduced
    IN  Obj(modified_scores.ref, increased)

\* Every boundary scaled by the transgression branch.
normalize_boundary_score_TransgressionOnly(raw_score, boundary_key, boundaries) ==
    LET boundary == boundaries[boundary_key]
        transgression_factor == QDiv(raw_score, Q(100, 1))
        global_transgression ==
            QDiv(QSub(boundary.current_global_status, boundary.safe_operating_space),
                 boundary.safe_operating_space)
        normalized_score ==
            QMin(Q(100, 1),
                 QMul(transgression_factor,
                      QAdd(Q(50, 1), QMul(global_transgression, Q(50, 1)))))
    IN  QMax(Q(0, 1), QMin(Q(100, 1), normalized_score))

\* Lines 285-312
normalize_boundary_score(raw_score, boundary_key, boundaries) ==
    LET boundary == boundaries[boundary_key]
        transgression_factor == QDiv(raw_score, Q(100, 1))
        global_transgression ==
            QDiv(QSub(boundary.current_global_status, boundary.safe_operating_space),
                 boundary.safe_operating_space)
        normalized_score ==
            IF QLt(boundary.safe_operating_space, boundary.current_global_status)
            THEN QMin(Q(100, 1),
                      QMul(transgression_factor,
                           QAdd(Q(50, 1), QMul(global_transgression, Q(50, 1)))))
            ELSE QMin(Q(50, 1), QMul(transgression_factor, Q(50, 1)))
    IN  QMax(Q(0, 1), QMin(Q(100, 1), normalized_score))

\* Lines 565-649: what a call of score_item returns or raises, and what it
\* leaves of the caller's item and of the tables.  A write to an object that
\* is the item or a row of a table shows there.
score_item(item, tables, boundaries) ==
    IF ItemRaises(item) # None
    THEN [raised |-> ItemRaises(item), item |-> item, tables |-> tables]
    ELSE
    LET item_type == lower(DictGet(item, "type", ""))
        category == lower(DictGet(item, "category", ""))
        materials == DictGet(item, "materials", << >>)
        factor_key == DictGet(type_mapping, item_type, "lifestyle")
        base_scores == apply_contextual_modifiers(
                           BaseScores(tables, boundaries, factor_key, category, materials), item)
        normalized_scores ==
            [boundary_key \in DOMAIN boundaries |->
                normalize_boundary_score(DictGet(base_scores.value, boundary_key, Q(50, 1)),
                                         boundary_key, boundaries)]
        copied == dict_copy(Obj("item", item))
        details == [factor_table_used |-> factor_key,
                    category_matched |-> category,
                    raw_scores |-> base_scores.value,
                    normalized_scores |-> normalized_scores,
                    description |-> DictGet(base_scores.value, "description", item_type \o " item")]
        value == DictUpdate(DictUpdate(copied.value, normalized_scores),
                            [ecoscore_details |-> details])
    IN  [returned |-> value,
         item |-> IF copied.ref = "item" THEN value ELSE item,
         tables |-> IF base_scores.ref = "new" THEN tables
                    ELSE [tables EXCEPT ![base_scores.ref[1]][base_scores.ref[2]].scores =
                                           base_scores.value]]

\* The items score_item is called with: categories that match a key exactly
\* (after lower()), as a part of a key or through a material, and that match
\* nothing; a category that is a key and holds an earlier key; a category
\* that holds a key while a material is an earlier key; materials of which
\* the second and the third match; keywords of either modifier and of both;
\* a category that is missing, empty or null; materials that are null.
Items ==
    {[type |-> "meal", category |-> "Plant-Based"],
     [type |-> "clothing", category |-> "fast-fashion", materials |-> << >>],
     [type |-> "transport", category |-> "walk", materials |-> <<"Eco">>],
     [type |-> "Transport", category |-> "walking", materials |-> <<"eco", "imported">>],
     [type |-> "food", category |-> "Fruit", materials |-> <<"glass", "Organic apple">>],
     [type |-> "food", category |-> "imported", materials |-> << >>],
     [type |-> "travel", category |-> "electric_car"],
     [type |-> "transport", category |-> "Bus ride", materials |-> <<"walk">>],
     [type |-> "mobility", category |-> "commute", materials |-> <<"steel", "Train ticket", "car">>],
     [type |-> "gadget", category |-> "phone", barcode |-> None],
     [type |-> "food", materials |-> << >>],
     [type |-> "outfit", category |-> "", materials |-> << >>],
     [type |-> "food", category |-> None, materials |-> << >>],
     [type |-> "food", category |-> "snack", materials |-> None]}

\* The history keeps the first result of the first MaxRemembered items scored.
MaxRemembered == 1

\* A call score_item(item): the module's tables are what the call left of
\* them, the caller holds the item as the call left it (after); again tells
\* that the item was scored before and its first result is remembered.
score_item_call(item) ==
    LET out == score_item(item, FACTOR_TABLES, PLANETARY_BOUNDARIES)
    IN  /\ request' = [call |-> "score_item", argument |-> item, after |-> out.item,
                        again |-> item \in DOMAIN first_result]
        /\ result' = [k \in DOMAIN out \ {"item", "tables"} |-> out[k]]
        /\ FACTOR_TABLES' = out.tables
        /\ first_result' =
              IF item \in DOMAIN first_result \/ Cardinality(DOMAIN first_result) >= MaxRemembered
              THEN first_result
              ELSE [i \in DOMAIN first_result \cup {item} |->
                       IF i = item THEN result' ELSE first_result[i]]
        /\ UNCHANGED PLANETARY_BOUNDARIES
        /\ UNCHANGED store_vars

\* The scoring module before any leaderboard request, the store constructed
\* from an empty leaderboard file.
ScoreInit ==
    /\ Init
    /\ leaderboard_entries[Main] = << >>
    /\ leaderboard_file.last_updated.date = "2026-11-02"

\* Calls of score_item, one after the other.
NextItem == \E item \in Items : score_item_call(item)

ItemSpec == ScoreInit /\ [][NextItem]_vars

\* ------------------------------------------------------------------------
\* calculate_grade (backend/ecoscore.py)
\* ------------------------------------------------------------------------

\* The grade of a composite of 50 or less and more than 40 given as "C", the
\* grade the default result carries.
calculate_grade_DefaultGradeAtFifty(composite_score) ==
    IF QLe(composite_score, Q(20, 1)) THEN "A+"
    ELSE IF QLe(composite_score, Q(30, 1)) THEN "A"
    ELSE IF QLe(composite_score, Q(40, 1)) THEN "B+"
    ELSE IF QLe(composite_score, Q(50, 1)) THEN "C"
    ELSE IF QLe(composite_score, Q(60, 1)) THEN "C+"
    ELSE IF QLe(composite_score, Q(70, 1)) THEN "C"
    ELSE IF QLe(composite_score, Q(80, 1)) THEN "D+"
    ELSE IF QLe(composite_score, Q(90, 1)) THEN "D"
    ELSE "F"

\* Lines 407-426
calculate_grade(composite_score) ==
    IF QLe(composite_score, Q(20, 1)) THEN "A+"
    ELSE IF QLe(composite_score, Q(30, 1)) THEN "A"
    ELSE IF QLe(composite_score, Q(40, 1)) THEN "B+"
    ELSE IF QLe(composite_score, Q(50, 1)) THEN "B"
    ELSE IF QLe(composite_score, Q(60, 1)) THEN "C+"
    ELSE IF QLe(composite_score, Q(70, 1)) THEN "C"
    ELSE IF QLe(composite_score, Q(80, 1)) THEN "D+"
    ELSE IF QLe(composite_score, Q(90, 1)) THEN "D"
    ELSE "F"

\* The composite scores calculate_grade is called with: the quarters from 0
\* to MaxQuarter / 4, the thresholds and both their sides among them.
MaxQuarter == 440

Composites == {Q(n, 4) : n \in 0..MaxQuarter}

\* A call calculate_grade(composite_score).
calculate_grade_call(composite_score) ==
    /\ request' = [call |-> "calculate_grade", argument |-> composite_score]
    /\ result' = [returned |-> calculate_grade(composite_score)]
    /\ UNCHANGED <<FACTOR_TABLES, PLANETARY_BOUNDARIES, first_result>>
    /\ UNCHANGED store_vars

\* Calls of calculate_grade, one after the other.
NextGrade == \E composite_score \in Composites : calculate_grade_call(composite_score)

GradeSpec == ScoreInit /\ [][NextGrade]_vars

\* ------------------------------------------------------------------------
\* calculate_ecoscore and calculate_ecoscore_from_quiz_responses
\* (backend/ecoscore.py), and the intake handler that calls them
\* (backend/app.py)
\* ------------------------------------------------------------------------

\* The boundaries in the order of the dict.
BoundaryOrder == <<"climate", "biosphere", "biogeochemical", "freshwater", "aerosols">>

\* The plain mean of the scores, every boundary weighing the same.
WeightedSum_EqualWeights(scores, boundaries) ==
    QSum([i \in DOMAIN BoundaryOrder |->
             QMul(scores[BoundaryOrder[i]], Q(1, Len(BoundaryOrder)))])

\* Lines 353-356 and 840-842: the sum of score * weight over the boundaries.
WeightedSum(scores, boundaries) ==
    QSum([i \in DOMAIN BoundaryOrder |->
             QMul(scores[BoundaryOrder[i]], boundaries[BoundaryOrder[i]].weight)])

\* Lines 353-357: total_weight.
TotalWeight(boundaries) ==
    QSum([i \in DOMAIN BoundaryOrder |-> boundaries[BoundaryOrder[i]].weight])

\* floor(x) for a fraction x.
QFloor(x) == x.n \div x.d

\* The float nearest to x is x itself: x is a multiple of a power of two
\* (as far as the fractions of this model go: of 1, 1/2, 1/4 or 1/8).
IsExactFloat(x) == x.d \in {1, 2, 4, 8}

\* round(x, 1), the values it may return.  It rounds the float, not the
\* fraction: a fraction half way between two tenths that no float holds
\* exactly (20.05) goes where the nearest float lies, up or down; one that a
\* float holds exactly (20.25) goes to the even tenth.
RoundOne(x) ==
    LET tens == QMul(x, Q(10, 1))
        below == QFloor(tens)
        rest == QSub(tens, Q(below, 1))
    IN  IF QLt(rest, Q(1, 2)) THEN {Q(below, 10)}
        ELSE IF QLt(Q(1, 2), rest) THEN {Q(below + 1, 10)}
        ELSE IF IsExactFloat(x) THEN {Q(IF below % 2 = 0 THEN below ELSE below + 1, 10)}
        ELSE {Q(below, 10), Q(below + 1, 10)}

\* Lines 388-405: the default result.  (recommendations, boundary_details
\* and methodology, derived from the averages, are left out of the results.)
create_default_ecoscore(boundaries) ==
    [items |-> << >>,
     per_boundary_averages |-> [boundary \in DOMAIN boundaries |-> Q(50, 1)],
     composite |-> Q(50, 1),
     grade |-> "C"]

\* Lines 333-334: so_far, the items scored and what the calls left of the
\* tables, after one more call of score_item, of outcome out.
WithScored(so_far, out) ==
    IF "raised" \in DOMAIN out
    THEN [raised |-> out.raised, tables |-> out.tables]
    ELSE [scored_items |-> Append(so_far.scored_items, out.returned),
          tables |-> out.tables]

ScoreNext(so_far, item, boundaries) ==
    WithScored(so_far, score_item(item, so_far.tables, boundaries))

\* Lines 332-339: score_item on every item in turn; the first exception ends
\* the loop.
RECURSIVE ScoreItems(_, _, _)
ScoreItems(items, so_far, boundaries) ==
    IF items = << >> THEN so_far
    ELSE IF "raised" \in DOMAIN so_far THEN so_far
    ELSE ScoreItems(Tail(items), ScoreNext(so_far, Head(items), boundaries), boundaries)

\* Lines 341-347: the mean per boundary of the items' normalized scores,
\* 50.0 for a boundary no item has a score of.
PerBoundaryAverages(scored_items, boundaries) ==
    [boundary \in DOMAIN boundaries |->
        LET having == {i \in DOMAIN scored_items : boundary \in DOMAIN scored_items[i]}
            scores == [i \in DOMAIN scored_items |->
                          IF i \in having THEN scored_items[i][boundary] ELSE Q(0, 1)]
        IN  IF having # {}
            THEN QDiv(QSum(scores), Q(Cardinality(having), 1))
            ELSE Q(50, 1)]

\* Lines 349-362: the composite before rounding.
CompositeOfAverages(per_boundary_averages, boundaries) ==
    IF QLt(Q(0, 1), TotalWeight(boundaries))
    THEN QDiv(WeightedSum(per_boundary_averages, boundaries), TotalWeight(boundaries))
    ELSE Q(50, 1)

\* Lines 364-386 and 844-862: the results a scoring may return, one for each
\* value round() may give, with the composite before rounding
\* (composite_score, a local).
EcoScoreResults(scored_items, per_boundary_averages, composite_score) ==
    {[returned |-> [items |-> scored_items,
                    per_boundary_averages |-> per_boundary_averages,
                    composite |-> composite,
                    grade |-> calculate_grade(composite_score)],
      composite_score |-> composite_score] : composite \in RoundOne(composite_score)}

\* Lines 349-386, from the averages on.
ResultsOfAverages(scored_items, per_boundary_averages, boundaries) ==
    EcoScoreResults(scored_items, per_boundary_averages,
                    CompositeOfAverages(per_boundary_averages, boundaries))

\* Lines 341-386, from the scored items on.
ResultsOfItems(scored_items, boundaries) ==
    ResultsOfAverages(scored_items, PerBoundaryAverages(scored_items, boundaries), boundaries)

\* outcome and what the calls left of the tables.
WithTables(outcome, tables) ==
    [k \in DOMAIN outcome \cup {"tables"} |-> IF k = "tables" THEN tables ELSE outcome[k]]

\* Lines 328-386, from the end of the loop over the items on.
OutcomesOfLoop(out, boundaries) ==
    IF "raised" \in DOMAIN out THEN {out}
    ELSE {WithTables(outcome, out.tables) :
             outcome \in ResultsOfItems(out.scored_items, boundaries)}

\* Lines 314-386: the outcomes of calculate_ecoscore(items): the exception
\* raised or a result returned, and what the call left of the tables.
calculate_ecoscore(items, tables, boundaries) ==
    IF items = << >>
    THEN {[returned |-> create_default_ecoscore(boundaries), tables |-> tables]}
    ELSE OutcomesOfLoop(ScoreItems(items, [scored_items |-> << >>, tables |-> tables],
                                   boundaries),
                        boundaries)

\* A quiz answer is a str or a list of str (app.py line 102).
Str(text) == [str |-> text]

List(elements) == [list |-> elements]

AnswerIs(answer, text) == "str" \in DOMAIN answer /\ answer.str = text

QuizResponse(question_id, answer) == [question_id |-> question_id, answer |-> answer]

\* Lines 765-767: responses_dict; of two answers to a question the later
\* stays.
ResponsesDict(quiz_responses) ==
    [question_id \in {quiz_responses[i].question_id : i \in DOMAIN quiz_responses} |->
        LET last == CHOOSE i \in DOMAIN quiz_responses :
                        /\ quiz_responses[i].question_id = question_id
                        /\ \A j \in DOMAIN quiz_responses :
                              quiz_responses[j].question_id = question_id => j <= i
        IN  quiz_responses[last].answer]

\* int(text) for a str of decimal digits with an optional sign; another
\* str is a ValueError (IsDecimal is false of it).
DecimalDigits == "0123456789"

IsDigit(c) == \E i \in 1..Len(DecimalDigits) : SubSeq(DecimalDigits, i, i) = c

DigitValue(c) == (CHOOSE i \in 1..Len(DecimalDigits) : SubSeq(DecimalDigits, i, i) = c) - 1

HasSign(text) == Len(text) > 0 /\ SubSeq(text, 1, 1) \in {"+", "-"}

Unsigned(text) == IF HasSign(text) THEN SubSeq(text, 2, Len(text)) ELSE text

IsDecimal(text) ==
    /\ Len(Unsigned(text)) > 0
    /\ \A i \in 1..Len(Unsigned(text)) : IsDigit(SubSeq(Unsigned(text), i, i))

RECURSIVE DigitsValue(_)
DigitsValue(digits) ==
    IF Len(digits) = 0 THEN 0
    ELSE 10 * DigitsValue(SubSeq(digits, 1, Len(digits) - 1))
         + DigitValue(SubSeq(digits, Len(digits), Len(digits)))

ParseInt(text) ==
    IF HasSign(text) /\ SubSeq(text, 1, 1) = "-"
    THEN 0 - DigitsValue(Unsigned(text))
    ELSE DigitsValue(Unsigned(text))

\* max(floor, scores[boundary] - by) and min(ceiling, scores[boundary] + by)
\* stored under boundary.
ScoreDown(scores, boundary, floor, by) ==
    [scores EXCEPT ![boundary] = QMax(Q(floor, 1), QSub(@, Q(by, 1)))]

ScoreUp(scores, boundary, ceiling, by) ==
    [scores EXCEPT ![boundary] = QMin(Q(ceiling, 1), QAdd(@, Q(by, 1)))]

\* Lines 771-787: food choices.
FoodImpact(scores, responses_dict) ==
    IF "food_today" \notin DOMAIN responses_dict THEN scores
    ELSE LET food_choice == responses_dict["food_today"] IN
         IF AnswerIs(food_choice, "plant-based")
         THEN ScoreDown(ScoreDown(ScoreDown(scores, "climate", 15, 30),
                                  "biosphere", 20, 25), "biogeochemical", 25, 20)
         ELSE IF AnswerIs(food_choice, "mixed")
         THEN ScoreDown(ScoreDown(scores, "climate", 25, 15), "biosphere", 30, 10)
         ELSE IF AnswerIs(food_choice, "meat-heavy")
         THEN ScoreUp(ScoreUp(ScoreUp(scores, "climate", 85, 25),
                              "biosphere", 80, 20), "biogeochemical", 85, 25)
         ELSE IF AnswerIs(food_choice, "packaged")
         THEN ScoreUp(ScoreUp(scores, "climate", 75, 15), "aerosols", 75, 20)
         ELSE scores

\* Lines 790-802: transport choices.
TransportImpact(scores, responses_dict) ==
    IF "transport_today" \notin DOMAIN responses_dict THEN scores
    ELSE LET transport == responses_dict["transport_today"] IN
         IF AnswerIs(transport, "walk") \/ AnswerIs(transport, "bike")
         THEN ScoreDown(ScoreDown(scores, "climate", 10, 35), "aerosols", 15, 30)
         ELSE IF AnswerIs(transport, "public")
         THEN ScoreDown(ScoreDown(scores, "climate", 25, 15), "aerosols", 30, 15)
         ELSE IF AnswerIs(transport, "electric")
         THEN ScoreDown(scores, "climate", 30, 10)
         ELSE IF AnswerIs(transport, "car")
         THEN ScoreUp(ScoreUp(scores, "climate", 85, 30), "aerosols", 80, 25)
         ELSE scores

\* Lines 805-815: distance traveled.
DistanceImpact(scores, responses_dict) ==
    IF "distance_traveled" \notin DOMAIN responses_dict THEN scores
    ELSE LET distance == responses_dict["distance_traveled"] IN
         IF AnswerIs(distance, "5_20km") THEN ScoreUp(scores, "climate", 80, 10)
         ELSE IF AnswerIs(distance, "20_50km") THEN ScoreUp(scores, "climate", 85, 20)
         ELSE IF AnswerIs(distance, "over_50km") THEN ScoreUp(scores, "climate", 90, 30)
         ELSE scores

\* A str answer that is no number counted as a rating of 4 or more.
WaterImpact_UnparsedAsHigh(scores, responses_dict) ==
    IF "water_usage" \notin DOMAIN responses_dict THEN scores
    ELSE LET answer == responses_dict["water_usage"]
             water_rating == ParseInt(answer.str)
         IN  IF "str" \notin DOMAIN answer THEN scores
             ELSE IF ~IsDecimal(answer.str) THEN ScoreUp(scores, "freshwater", 75, 20)
             ELSE IF water_rating <= 2 THEN ScoreDown(scores, "freshwater", 20, 25)
             ELSE IF water_rating = 3 THEN ScoreDown(scores, "freshwater", 35, 10)
             ELSE ScoreUp(scores, "freshwater", 75, 20)

\* Lines 818-829: water usage; int() of a list is a TypeError, of a str that
\* is no number a ValueError, and both are passed over.
WaterImpact(scores, responses_dict) ==
    IF "water_usage" \notin DOMAIN responses_dict THEN scores
    ELSE LET answer == responses_dict["water_usage"]
             water_rating == ParseInt(answer.str)
         IN  IF "str" \notin DOMAIN answer THEN scores
             ELSE IF ~IsDecimal(answer.str) THEN scores
             ELSE IF water_rating <= 2 THEN ScoreDown(scores, "freshwater", 20, 25)
             ELSE IF water_rating = 3 THEN ScoreDown(scores, "freshwater", 35, 10)
             ELSE ScoreUp(scores, "freshwater", 75, 20)

\* Lines 832-837: waste reduction actions, 5 points each.
WasteImpact(scores, responses_dict) ==
    IF "waste_reduction" \notin DOMAIN responses_dict THEN scores
    ELSE LET waste_actions == responses_dict["waste_reduction"] IN
         IF "list" \in DOMAIN waste_actions
         THEN LET reduction_factor == Len(waste_actions.list) * 5
              IN  ScoreDown(ScoreDown(scores, "aerosols", 20, reduction_factor),
                            "biogeochemical", 25, reduction_factor)
         ELSE scores

\* Lines 771-837: the boundary scores the responses leave of the baseline.
QuizScores(baseline, responses_dict) ==
    WasteImpact(WaterImpact(DistanceImpact(TransportImpact(
        FoodImpact(baseline, responses_dict),
        responses_dict), responses_dict), responses_dict), responses_dict)

\* Lines 839-862, from the boundary scores on.
ResultsOfQuizScores(boundary_scores, boundaries) ==
    EcoScoreResults(<< >>, boundary_scores, WeightedSum(boundary_scores, boundaries))

\* Lines 752-862: the outcomes of calculate_ecoscore_from_quiz_responses.
calculate_ecoscore_from_quiz_responses(quiz_responses, boundaries) ==
    ResultsOfQuizScores(QuizScores([boundary \in DOMAIN boundaries |-> Q(50, 1)],
                                   ResponsesDict(quiz_responses)),
                        boundaries)

\* The items calculate_ecoscore is called with, through score_batch and
\* /api/score (dicts as the caller or the JSON body gives them): lists of at
\* most MaxItems of them.
MaxItems == 2

ScoredItems ==
    {[type |-> "meal", category |-> "Plant-Based"],
     [type |-> "clothing", category |-> "fast-fashion", materials |-> << >>],
     [type |-> "gadget", category |-> "phone", barcode |-> None],
     [type |-> "food", category |-> None, materials |-> << >>]}

ItemLists == UNION {[1..n -> ScoredItems] : n \in 0..MaxItems}

\* A call calculate_ecoscore(items).
calculate_ecoscore_call(items) ==
    \E out \in calculate_ecoscore(items, FACTOR_TABLES, PLANETARY_BOUNDARIES) :
        /\ request' = [call |-> "calculate_ecoscore", items |-> items]
        /\ result' = [k \in DOMAIN out \ {"tables"} |-> out[k]]
        /\ FACTOR_TABLES' = out.tables
        /\ UNCHANGED <<PLANETARY_BOUNDARIES, first_result>>
        /\ UNCHANGED store_vars

\* The bodies of the intake requests that pass the validation of
\* IntakeRequest (app.py lines 105-122): an Item has a str type, a str
\* category, a list of str materials and an optional barcode.
IntakeItems ==
    {[type |-> "food", category |-> "mixed", materials |-> << >>, barcode |-> None],
     [type |-> "transport", category |-> "Bus ride", materials |-> <<"walk">>,
      barcode |-> "4006381333931"]}

OptionalResponse(question_id, answers) ==
    {<< >>} \cup {<<QuizResponse(question_id, answer)>> : answer \in answers}

QuizLists ==
    {food \o transport \o distance \o water \o waste :
        food \in OptionalResponse("food_today",
                     {Str("plant-based"), Str("mixed"), Str("meat-heavy"), Str("packaged")}),
        transport \in OptionalResponse("transport_today",
                          {Str("bike"), Str("electric"), Str("car")}),
        distance \in OptionalResponse("distance_traveled", {Str("20_50km")}),
        water \in OptionalResponse("water_usage", {Str("2"), Str("4")}),
        waste \in OptionalResponse("waste_reduction", {List(<<"reuse", "compost", "repair">>)})}
    \cup
    {<<QuizResponse("food_today", Str("meat-heavy")), QuizResponse("food_today", Str("plant-based"))>>,
     <<QuizResponse("transport_today", Str("public")), QuizResponse("water_usage", Str("3"))>>,
     <<QuizResponse("water_usage", Str("often")), QuizResponse("distance_traveled", Str("over_50km"))>>,
     <<QuizResponse("water_usage", List(<<"2">>)), QuizResponse("distance_traveled", Str("5_20km"))>>,
     <<QuizResponse("waste_reduction", Str("reuse")), QuizResponse("food_today", List(<<"mixed">>))>>,
     <<QuizResponse("transport_today", Str("walk")), QuizResponse("mood", Str("fine"))>>,
     <<QuizResponse("food_today", Str("plant-based")), QuizResponse("food_today", Str("vegan")),
       QuizResponse("transport_today", Str("teleport"))>>,
     <<QuizResponse("food_today", Str("meat-heavy")), QuizResponse("transport_today", Str("car")),
       QuizResponse("distance_traveled", Str("5_20km"))>>}

IntakeRequests ==
    {[items |-> << >>, quiz_responses |-> quiz_responses] : quiz_responses \in QuizLists}
    \cup
    {[items |-> <<item>>, quiz_responses |-> quiz_responses] :
        item \in IntakeItems,
        quiz_responses \in {<< >>, <<QuizResponse("food_today", Str("plant-based"))>>}}

\* app.py lines 341-359 of the handler of POST /api/intake: the score of the
\* items when there are items, of the quiz responses otherwise.  (The
\* alternatives looked up and the record sent to Supabase after it, lines
\* 370-423, reach no state of this model.)
enhanced_intake(items, quiz_responses) ==
    LET items_for_scoring ==
            [i \in DOMAIN items |->
                [type |-> items[i].type, category |-> items[i].category,
                 materials |-> items[i].materials, barcode |-> items[i].barcode]]
        outcomes ==
            IF items_for_scoring # << >>
            THEN calculate_ecoscore(items_for_scoring, FACTOR_TABLES, PLANETARY_BOUNDARIES)
            ELSE {WithTables(out, FACTOR_TABLES) :
                  out \in calculate_ecoscore_from_quiz_responses(quiz_responses,
                                                                 PLANETARY_BOUNDARIES)}
    IN  \E score_data \in outcomes :
            /\ request' = [call |-> "enhanced_intake", items |-> items,
                           quiz_responses |-> quiz_responses]
            /\ result' = [k \in DOMAIN score_data \ {"tables"} |-> score_data[k]]
            /\ FACTOR_TABLES' = score_data.tables
            /\ UNCHANGED <<PLANETARY_BOUNDARIES, first_result>>
            /\ UNCHANGED store_vars

\* Scoring requests, one after the other.
NextEco ==
    \/ \E items \in ItemLists : calculate_ecoscore_call(items)
    \/ \E intake \in IntakeRequests : enhanced_intake(intake.items, intake.quiz_responses)

EcoScoreSpec == ScoreInit /\ [][NextEco]_vars

\* ------------------------------------------------------------------------
\* generate_recommendations (ecoscore.py)
\* ------------------------------------------------------------------------

\* Lines 439-470: recommendation_templates.
recommendation_templates ==
    [climate |->
        <<[action |-> "Switch to plant-based meals 3 days/week",
           impact |-> "Reduce GHG by 20-30%", difficulty |-> "easy"],
          [action |-> "Use public transport or bike for short trips",
           impact |-> "Cut transport emissions by 50%", difficulty |-> "medium"],
          [action |-> "Choose renewable energy provider",
           impact |-> "Reduce home carbon footprint by 40%", difficulty |-> "easy"],
          [action |-> "Buy second-hand clothing instead of new",
           impact |-> "Avoid 60% of textile emissions", difficulty |-> "easy"]>>,
     biosphere |->
        <<[action |-> "Choose MSC/FSC certified products",
           impact |-> "Support sustainable ecosystems", difficulty |-> "easy"],
          [action |-> "Reduce meat consumption",
           impact |-> "Lower land use pressure by 30%", difficulty |-> "medium"],
          [action |-> "Plant native species in garden/balcony",
           impact |-> "Support local biodiversity", difficulty |-> "easy"],
          [action |-> "Join campus conservation activities",
           impact |-> "Contribute to habitat protection", difficulty |-> "easy"]>>,
     biogeochemical |->
        <<[action |-> "Choose organic produce when possible",
           impact |-> "Reduce nitrogen runoff by 40%", difficulty |-> "medium"],
          [action |-> "Compost food waste",
           impact |-> "Prevent nutrient pollution", difficulty |-> "easy"],
          [action |-> "Use phosphate-free cleaning products",
           impact |-> "Reduce waterway eutrophication", difficulty |-> "easy"],
          [action |-> "Support regenerative agriculture",
           impact |-> "Improve soil nutrient cycling", difficulty |-> "medium"]>>,
     freshwater |->
        <<[action |-> "Take shorter showers (5 min max)",
           impact |-> "Save 25% of water usage", difficulty |-> "easy"],
          [action |-> "Choose drought-resistant foods",
           impact |-> "Reduce agricultural water demand", difficulty |-> "medium"],
          [action |-> "Fix any leaks promptly",
           impact |-> "Prevent 10% water waste", difficulty |-> "easy"],
          [action |-> "Collect rainwater for plants",
           impact |-> "Reduce demand on freshwater", difficulty |-> "medium"]>>,
     aerosols |->
        <<[action |-> "Choose natural fiber clothing",
           impact |-> "Reduce microplastic release", difficulty |-> "medium"],
          [action |-> "Use reusable containers",
           impact |-> "Avoid single-use plastics", difficulty |-> "easy"],
          [action |-> "Walk/bike instead of driving",
           impact |-> "Reduce particulate emissions", difficulty |-> "medium"],
          [action |-> "Support plastic-free packaging",
           impact |-> "Reduce novel entity pollution", difficulty |-> "easy"]>>]

\* Line 436: the place of a boundary in sorted(boundary_scores.items(),
\* key=score, reverse=True).  The sort is stable: of two boundaries with the
\* same score, the one that comes first in the dict (both callers build it
\* in the order of PLANETARY_BOUNDARIES) stays first.
DictPlace(boundary_key) == CHOOSE i \in DOMAIN BoundaryOrder : BoundaryOrder[i] = boundary_key

SortedPlace(boundary_scores, boundary_key) ==
    1 + Cardinality({other \in DOMAIN boundary_scores :
                        \/ QLt(boundary_scores[boundary_key], boundary_scores[other])
                        \/ /\ boundary_scores[other] = boundary_scores[boundary_key]
                           /\ DictPlace(other) < DictPlace(boundary_key)})

sorted_boundaries(boundary_scores) ==
    [i \in 1..Cardinality(DOMAIN boundary_scores) |->
        CHOOSE boundary_key \in DOMAIN boundary_scores :
            SortedPlace(boundary_scores, boundary_key) = i]

\* [r for r in templates if any keyword in r['action']]
TemplatesWith(templates, keywords) ==
    SelectSeq(templates, LAMBDA r : \E keyword \in keywords : StrIn(keyword, r.action))

\* Lines 493-516.
select_contextual_recommendation(templates, items, boundary_key) ==
    LET item_types == {lower(DictGet(items[i], "type", "")) : i \in DOMAIN items}
        food_recommendations == TemplatesWith(templates, {"meal", "food", "meat"})
        clothing_recommendations == TemplatesWith(templates, {"clothing", "second-hand"})
        transport_recommendations == TemplatesWith(templates, {"transport", "bike"})
    IN  IF ("food" \in item_types \/ "meal" \in item_types) /\ food_recommendations # << >>
        THEN food_recommendations[1]
        ELSE IF ("clothing" \in item_types \/ "outfit" \in item_types)
                /\ clothing_recommendations # << >>
        THEN clothing_recommendations[1]
        ELSE IF ("transport" \in item_types \/ "mobility" \in item_types)
                /\ transport_recommendations # << >>
        THEN transport_recommendations[1]
        ELSE IF templates # << >> THEN templates[1]
        ELSE [action |-> "Explore sustainable alternatives",
              impact |-> "Reduce environmental pressure", difficulty |-> "easy"]

\* Lines 482-489: the entry appended for a boundary, current_score given.
Recommendation(selected_rec, boundary_key, current_score, boundaries) ==
    [action |-> selected_rec.action,
     impact |-> selected_rec.impact,
     boundary |-> boundaries[boundary_key].name,
     current_score |-> current_score,
     difficulty |-> selected_rec.difficulty,
     category |-> boundary_key]

\* recommendations[:5]
FirstFive(recommendations) ==
    SubSeq(recommendations, 1, IF Len(recommendations) < 5 THEN Len(recommendations) ELSE 5)

\* Lines 473-491, from the boundaries that get an entry on: the lists the
\* loop may build, one value of round(score, 1) in each entry.
RecommendationsFor(chosen, boundary_scores, items, boundaries) ==
    {FirstFive([i \in DOMAIN chosen |->
          Recommendation(select_contextual_recommendation(
                             recommendation_templates[chosen[i]], items, chosen[i]),
                         chosen[i], rounded[i], boundaries)]) :
        rounded \in {r \in [DOMAIN chosen -> UNION {RoundOne(boundary_scores[chosen[i]]) :
                                                       i \in DOMAIN chosen}] :
                        \A i \in DOMAIN chosen : r[i] \in RoundOne(boundary_scores[chosen[i]])}}

\* Every boundary above 40 gets an entry, not only the first three.
generate_recommendations_NoTopThree(boundary_scores, items, boundaries) ==
    RecommendationsFor(
        SelectSeq(sorted_boundaries(boundary_scores),
                  LAMBDA boundary_key :
                      /\ QLt(Q(40, 1), boundary_scores[boundary_key])
                      /\ boundary_key \in DOMAIN recommendation_templates),
        boundary_scores, items, boundaries)

\* Lines 428-491: the lists generate_recommendations may return.
generate_recommendations(boundary_scores, items, boundaries) ==
    RecommendationsFor(
        SelectSeq(SubSeq(sorted_boundaries(boundary_scores), 1, 3),
                  LAMBDA boundary_key :
                      /\ QLt(Q(40, 1), boundary_scores[boundary_key])
                      /\ boundary_key \in DOMAIN recommendation_templates),
        boundary_scores, items, boundaries)

\* The boundary scores generate_recommendations is called with: the averages
\* or quiz scores of the five boundaries.
RecommendScores ==
    {[climate |-> climate, biosphere |-> biosphere, biogeochemical |-> biogeochemical,
      freshwater |-> freshwater, aerosols |-> aerosols] :
        climate \in {Q(40, 1), Q(4567, 100), Q(221, 4)},
        biosphere \in {Q(40, 1), Q(221, 4)},
        biogeochemical \in {Q(40, 1), Q(4567, 100)},
        freshwater \in {Q(40, 1), Q(221, 4)},
        aerosols \in {Q(40, 1), Q(4567, 100)}}

\* The scored items it is called with; it reads their type.
RecommendItems ==
    {<< >>,
     <<[type |-> "Meal", category |-> "mixed"]>>,
     <<[type |-> "transport", category |-> "car"], [type |-> "outfit", category |-> "wool"]>>,
     <<[type |-> "mobility", category |-> "bus"]>>,
     <<[type |-> "snack", category |-> "crisps"], [category |-> "tea"]>>}

\* A call generate_recommendations(boundary_scores, items).
generate_recommendations_call(boundary_scores, items) ==
    \E recommendations \in generate_recommendations(boundary_scores, items, PLANETARY_BOUNDARIES) :
        /\ request' = [call |-> "generate_recommendations",
                       boundary_scores |-> boundary_scores, items |-> items]
        /\ result' = [returned |-> recommendations]
        /\ UNCHANGED <<FACTOR_TABLES, PLANETARY_BOUNDARIES, first_result>>
        /\ UNCHANGED store_vars

\* Calls of generate_recommendations, one after the other.
NextRecommend ==
    \E boundary_scores \in RecommendScores, items \in RecommendItems :
        generate_recommendations_call(boundary_scores, items)

RecommendSpec == ScoreInit /\ [][NextRecommend]_vars

\* ------------------------------------------------------------------------
\* EcoBeeRecommender.get_personalized_recommendations (recommender.py)
\* ------------------------------------------------------------------------

Action(id, category, impact_reduction, difficulty, time_commitment, cost, social_aspect, campus_specific) ==
    [id |-> id, category |-> category, impact_reduction |-> impact_reduction,
     difficulty |-> difficulty, time_commitment |-> time_commitment, cost |-> cost,
     social_aspect |-> social_aspect, campus_specific |-> campus_specific]

\* Lines 46-214: self.actions, in the order of the dict.  (name, description
\* and tags, texts no score reads, are left out.)
actions ==
    <<Action("plant_meals", "food",
             [climate |-> 25, biosphere |-> 20, biogeochemical |-> 30, freshwater |-> 15,
              aerosols |-> 10],
             "easy", "daily", "free", TRUE, FALSE),
      Action("local_food", "food",
             [climate |-> 15, biosphere |-> 25, freshwater |-> 10, aerosols |-> 20],
             "medium", "weekly", "low", FALSE, TRUE),
      Action("food_waste_reduction", "food",
             [climate |-> 20, biogeochemical |-> 15, freshwater |-> 10],
             "easy", "daily", "free", FALSE, FALSE),
      Action("secondhand_shopping", "clothing",
             [climate |-> 60, freshwater |-> 70, aerosols |-> 50, biosphere |-> 40],
             "easy", "monthly", "low", TRUE, TRUE),
      Action("clothing_repair", "clothing",
             [climate |-> 80, freshwater |-> 90, aerosols |-> 70],
             "medium", "monthly", "low", TRUE, TRUE),
      Action("clothing_swap", "clothing",
             [climate |-> 70, freshwater |-> 80, aerosols |-> 60],
             "easy", "monthly", "free", TRUE, TRUE),
      Action("active_transport", "transport",
             [climate |-> 90, aerosols |-> 85, biosphere |-> 30],
             "easy", "daily", "free", FALSE, FALSE),
      Action("public_transport", "transport",
             [climate |-> 60, aerosols |-> 70, biosphere |-> 20],
             "easy", "daily", "low", FALSE, TRUE),
      Action("carpool", "transport",
             [climate |-> 40, aerosols |-> 45],
             "medium", "weekly", "low", TRUE, TRUE),
      Action("minimal_consumption", "lifestyle",
             [climate |-> 30, biosphere |-> 35, freshwater |-> 25, aerosols |-> 40],
             "medium", "daily", "free", FALSE, FALSE),
      Action("digital_minimalism", "lifestyle",
             [climate |-> 15, aerosols |-> 20],
             "easy", "daily", "free", FALSE, FALSE),
      Action("reusable_items", "lifestyle",
             [aerosols |-> 60, climate |-> 10, biosphere |-> 20],
             "easy", "daily", "low", FALSE, FALSE)>>

\* Lines 216-287: self.resources, in the order of the dict.
resources ==
    <<[id |-> "campus_repair_cafe", type |-> "repair_cafe", cost |-> "free",
       related_actions |-> <<"clothing_repair", "minimal_consumption">>],
      [id |-> "clothing_swap_shop", type |-> "swap_shop", cost |-> "free",
       related_actions |-> <<"clothing_swap", "secondhand_shopping">>],
      [id |-> "bike_share", type |-> "bike_share", cost |-> "low",
       related_actions |-> <<"active_transport">>],
      [id |-> "local_farmers_market", type |-> "farmers_market", cost |-> "medium",
       related_actions |-> <<"local_food">>],
      [id |-> "campus_garden", type |-> "community_garden", cost |-> "low",
       related_actions |-> <<"local_food", "food_waste_reduction">>],
      [id |-> "sustainability_workshops", type |-> "workshop", cost |-> "free",
       related_actions |-> <<"clothing_repair", "food_waste_reduction",
                             "minimal_consumption">>]>>

\* round(x, 2), the values it may return (see RoundOne).
RoundTwo(x) ==
    LET hundreds == QMul(x, Q(100, 1))
        below == QFloor(hundreds)
        rest == QSub(hundreds, Q(below, 1))
    IN  IF QLt(rest, Q(1, 2)) THEN {Q(below, 100)}
        ELSE IF QLt(Q(1, 2), rest) THEN {Q(below + 1, 100)}
        ELSE IF IsExactFloat(x) THEN {Q(IF below % 2 = 0 THEN below ELSE below + 1, 100)}
        ELSE {Q(below, 100), Q(below + 1, 100)}

\* Every boundary counted, not only the first three.
priority_boundaries_AllBoundaries(boundary_scores) ==
    [i \in DOMAIN sorted_boundaries(boundary_scores) |->
        <<sorted_boundaries(boundary_scores)[i],
          boundary_scores[sorted_boundaries(boundary_scores)[i]]>>]

\* Lines 368-372: sorted(boundary_scores.items(), key=score, reverse=True)[:3].
priority_boundaries(boundary_scores) ==
    [i \in DOMAIN SubSeq(sorted_boundaries(boundary_scores), 1, 3) |->
        <<sorted_boundaries(boundary_scores)[i],
          boundary_scores[sorted_boundaries(boundary_scores)[i]]>>]

\* Lines 412-417: impact relevance.
RECURSIVE ImpactRelevance(_, _)
ImpactRelevance(action, priority) ==
    IF priority = << >> THEN Q(0, 1)
    ELSE LET boundary == Head(priority)[1]
             user_score == Head(priority)[2]
             impact_score ==
                 IF boundary \in DOMAIN action.impact_reduction
                 THEN QMul(QMul(QDiv(user_score, Q(100, 1)),
                                Q(action.impact_reduction[boundary], 100)),
                           Q(10, 1))
                 ELSE Q(0, 1)
         IN  QAdd(impact_score, ImpactRelevance(action, Tail(priority)))

\* Lines 431-432: cost_mapping.get(cost, 0) and budget_mapping.get(pref, 0).
cost_mapping == [free |-> 3, low |-> 2, medium |-> 1, high |-> 0]

\* Lines 419-444: user context adjustments.
ContextAdjustments(action, user_context) ==
    LET difficulty_pref == DictGet(user_context, "difficulty_preference", "easy")
        time_availability == DictGet(user_context, "time_availability", "daily")
        budget_pref == DictGet(user_context, "budget_preference", "free")
        social_pref == DictGet(user_context, "social_preference", TRUE)
        is_student == DictGet(user_context, "is_student", TRUE)
    IN  QSum(<<IF action.difficulty = difficulty_pref THEN Q(2, 1)
               ELSE IF action.difficulty = "easy" /\ difficulty_pref # "hard" THEN Q(1, 1)
               ELSE Q(0, 1),
               IF action.time_commitment = time_availability THEN Q(1, 1) ELSE Q(0, 1),
               IF DictGet(cost_mapping, action.cost, 0) >= DictGet(cost_mapping, budget_pref, 0)
               THEN Q(1, 1) ELSE Q(0, 1),
               IF action.social_aspect = social_pref THEN Q(1, 2) ELSE Q(0, 1),
               IF action.campus_specific /\ is_student THEN Q(1, 1) ELSE Q(0, 1)>>)

\* Lines 402-446.
_calculate_action_score(action, priority, user_context) ==
    QAdd(ImpactRelevance(action, priority), ContextAdjustments(action, user_context))

\* Lines 448-465: the resources that support the action.
_get_related_resources(action_id) ==
    [i \in DOMAIN SelectSeq(resources,
                            LAMBDA resource :
                                \E a \in DOMAIN resource.related_actions :
                                    resource.related_actions[a] = action_id) |->
        LET resource == SelectSeq(resources,
                                  LAMBDA r : \E a \in DOMAIN r.related_actions :
                                                 r.related_actions[a] = action_id)[i]
        IN  [resource_id |-> resource.id, type |-> resource.type, cost |-> resource.cost]]

\* Lines 382-396: the entry of an action, its rounded score given.
ActionView(action, recommendation_score) ==
    [action_id |-> action.id,
     category |-> action.category,
     impact_reduction |-> action.impact_reduction,
     difficulty |-> action.difficulty,
     time_commitment |-> action.time_commitment,
     cost |-> action.cost,
     social_aspect |-> action.social_aspect,
     campus_specific |-> action.campus_specific,
     recommendation_score |-> recommendation_score,
     related_resources |-> _get_related_resources(action.id)]

\* Lines 376-396: the lists the loop may have built after the first n
\* actions, with the score of each action as computed.
RECURSIVE ScoredActions(_, _, _)
ScoredActions(n, priority, user_context) ==
    IF n = 0 THEN {[recommendations |-> << >>, score |-> EmptyDict]}
    ELSE LET action == actions[n]
             score == _calculate_action_score(action, priority, user_context)
         IN  {[recommendations |->
                   IF QLt(Q(0, 1), score)
                   THEN Append(so_far.recommendations, ActionView(action, rounded))
                   ELSE so_far.recommendations,
               score |-> DictUpdate(so_far.score, [id \in {action.id} |-> score])] :
                 so_far \in ScoredActions(n - 1, priority, user_context),
                 rounded \in RoundTwo(score)}

\* Line 399: recommendations.sort(key=recommendation_score, reverse=True);
\* the sort is stable.
SortedByScore(recommendations) ==
    [place \in DOMAIN recommendations |->
        recommendations[
            CHOOSE i \in DOMAIN recommendations :
                place = 1 + Cardinality(
                    {j \in DOMAIN recommendations :
                        \/ QLt(recommendations[i].recommendation_score,
                               recommendations[j].recommendation_score)
                        \/ /\ recommendations[j].recommendation_score =
                                 recommendations[i].recommendation_score
                           /\ j < i})]]

\* s[:limit]
Slice(s, limit) ==
    IF limit >= 0
    THEN SubSeq(s, 1, IF limit < Len(s) THEN limit ELSE Len(s))
    ELSE SubSeq(s, 1, IF Len(s) + limit > 0 THEN Len(s) + limit ELSE 0)

\* user_context=None, the default of the parameter.
NoContext == [none |-> TRUE]

\* Lines 355-400: what get_personalized_recommendations may return, with
\* priority_boundaries and the score of each action as computed.
get_personalized_recommendations(boundary_scores, user_context, limit) ==
    {[returned |-> Slice(SortedByScore(built.recommendations), limit),
      priority_boundaries |-> priority_boundaries(boundary_scores),
      score |-> built.score] :
        built \in ScoredActions(Len(actions), priority_boundaries(boundary_scores),
                                IF user_context = NoContext THEN EmptyDict ELSE user_context)}

\* The scores GET /api/recommendations passes on (app.py lines 813-843).
PersonalScores ==
    {[climate |-> climate, biosphere |-> biosphere, biogeochemical |-> biogeochemical,
      freshwater |-> freshwater, aerosols |-> aerosols] :
        climate \in {Q(0, 1), Q(50, 1)},
        biosphere \in {Q(0, 1), Q(151, 10)},
        biogeochemical \in {Q(0, 1), Q(20, 1)},
        freshwater \in {Q(0, 1), Q(50, 1)},
        aerosols \in {Q(0, 1), Q(151, 10), Q(20, 1)}}

\* The user contexts: none, the one the endpoint builds from its defaults,
\* and two that state other preferences.
UserContexts ==
    {NoContext,
     [difficulty_preference |-> "easy", time_availability |-> "daily",
      budget_preference |-> "free", social_preference |-> TRUE, is_student |-> TRUE],
     [difficulty_preference |-> "hard", time_availability |-> "one-time",
      budget_preference |-> "free", social_preference |-> TRUE, is_student |-> FALSE],
     [difficulty_preference |-> "medium", time_availability |-> "weekly",
      budget_preference |-> "low", social_preference |-> FALSE, is_student |-> TRUE]}

\* The limits: the default 5 (get_recommendations passes none) and 2.
Limits == {2, 5}

\* get_recommendations(boundary_scores, user_context) of lines 532-534 and the
\* limit of line 356: the arguments of a call.
PersonalRequest(boundary_scores, user_context, limit) ==
    [call |-> "get_personalized_recommendations", boundary_scores |-> boundary_scores,
     user_context |-> user_context, limit |-> limit]

\* The serving process as ScoreInit leaves it, and a call of
\* get_personalized_recommendations about to run on its arguments.
PersonalInit ==
    \E seed \in {0}, now \in Times, draws \in [DOMAIN sample_users -> SeedDraws],
       found \in {save_leaderboard(<< >>, EmptyDict, t) : t \in Times} :
        LET loaded == load_leaderboard(found, seed, draws, now)
        IN  /\ loaded.entries = << >>
            /\ loaded.file.last_updated.date = "2026-11-02"
            /\ pc = [p \in Procs |-> IF p = Main THEN "up" ELSE "down"]
            /\ hash_seed = [p \in Procs |-> IF p = Main THEN seed ELSE 0]
            /\ leaderboard_entries = [p \in Procs |-> IF p = Main THEN loaded.entries ELSE << >>]
            /\ leaderboard_stats = [p \in Procs |-> IF p = Main THEN loaded.stats ELSE EmptyDict]
            /\ leaderboard_file = loaded.file
            /\ response = NoResponse
            /\ query = NoQuery
            /\ submitted = NoSubmissions
            /\ first_pseudonym = [u \in Users |-> None]
            /\ initial_users = UserIdsOf(loaded.entries)
            /\ failed_request = NoFailedRequest
            /\ FACTOR_TABLES = FactorTables
            /\ PLANETARY_BOUNDARIES = PlanetaryBoundaries
            /\ \E boundary_scores \in PersonalScores, user_context \in UserContexts,
                  limit \in Limits :
                    request = PersonalRequest(boundary_scores, user_context, limit)
            /\ result = NoResult
            /\ first_result = EmptyDict

\* The call get_personalized_recommendations(boundary_scores, user_context,
\* limit) runs on the arguments it was given and returns.
get_personalized_recommendations_call ==
    /\ request.call = "get_personalized_recommendations"
    /\ result = NoResult
    /\ result' \in get_personalized_recommendations(request.boundary_scores,
                                                     request.user_context, request.limit)
    /\ UNCHANGED <<FACTOR_TABLES, PLANETARY_BOUNDARIES, request, first_result>>
    /\ UNCHANGED store_vars

NextPersonal == get_personalized_recommendations_call

PersonalSpec == PersonalInit /\ [][NextPersonal]_vars

\* ------------------------------------------------------------------------
\* Properties
\* ------------------------------------------------------------------------

\* What the serving process holds in memory.
Entries == leaderboard_entries[Main]

EntryIndexes(entries, user_id) == {i \in DOMAIN entries : entries[i].user_id = user_id}

IsSubmitResponse(r) == "status" \in DOMAIN r

IsView(r) == "leaderboard" \in DOMAIN r

\* C1: starting from an empty leaderboard, after any sequence of submit_score
\* calls a user who never submitted has no entry, and a user who submitted has
\* exactly one, whose composite_score is the lowest composite submitted for
\* that user and whose session_count is the number of that user's submissions.
C1_OneEntryPerUserBestScoreSessionCount ==
    initial_users = {} =>
        \A u \in Users :
            LET idx == EntryIndexes(Entries, u)
            IN  IF submitted[u].count = 0 THEN idx = {}
                ELSE /\ Cardinality(idx) = 1
                     /\ \A i \in idx :
                           /\ Entries[i].composite_score = submitted[u].best
                           /\ Entries[i].session_count = submitted[u].count

\* C1's case: a user submitted twice, the second score the lower one, and the
\* one entry holds it with session_count 2 (the spec's 60.0 then 55.0).
C1_Witness ==
    /\ initial_users = {}
    /\ IsSubmitResponse(response) /\ response.status = "improved"
    /\ \E i \in DOMAIN Entries :
          /\ Entries[i].session_count = 2
          /\ submitted[Entries[i].user_id].count = 2
          /\ Entries[i].composite_score = 5000

\* C3: a submission for an existing user with a composite higher than or equal
\* to the stored one adds 1 to that entry's session_count and changes no other
\* field of it (composite_score, boundary_scores, submission_date, pseudonym,
\* campus_affiliation), leaves every other entry as it was, and returns
\* no_improvement with the stored composite.
C3_NoImprovementOnlyCountsSession ==
    [][\A u \in Users, r \in Payloads, now \in Times :
          LET i == FindEntry(Entries, u)
          IN  (/\ i # 0
               /\ r.composite_score >= Entries[i].composite_score
               /\ submit_score(Main, u, r.composite_score, r.boundary_scores,
                               r.campus_affiliation, now))
              => /\ DOMAIN Entries' = DOMAIN Entries
                 /\ \A j \in DOMAIN Entries : j # i => Entries'[j] = Entries[j]
                 /\ Entries'[i].session_count = Entries[i].session_count + 1
                 /\ Entries'[i].user_id = Entries[i].user_id
                 /\ Entries'[i].composite_score = Entries[i].composite_score
                 /\ Entries'[i].boundary_scores = Entries[i].boundary_scores
                 /\ Entries'[i].submission_date = Entries[i].submission_date
                 /\ Entries'[i].pseudonym = Entries[i].pseudonym
                 /\ Entries'[i].campus_affiliation = Entries[i].campus_affiliation
                 /\ response' = [status |-> "no_improvement",
                                 current_best |-> Entries[i].composite_score]
      ]_vars

\* C3's case: a second user's worse score was just turned down while another
\* entry exists.
C3_Witness ==
    /\ IsSubmitResponse(response) /\ response.status = "no_improvement"
    /\ response.current_best = 5000
    /\ Len(Entries) = 2
    /\ \E i \in DOMAIN Entries :
          Entries[i].composite_score = 5000 /\ Entries[i].session_count = 2

\* The score a row is ranked by under filter f: the named boundary's score
\* when f is one of the five boundary keys (100.00 for a row without one),
\* the composite score otherwise.
RankedScore(row, f) ==
    IF f \in {"climate", "biosphere", "biogeochemical", "freshwater", "aerosols"}
    THEN IF f \in DOMAIN row.boundary_scores THEN row.boundary_scores[f] ELSE 10000
    ELSE row.composite_score

ShowsEntry(row, entry) ==
    /\ row.pseudonym = entry.pseudonym
    /\ row.composite_score = entry.composite_score
    /\ row.boundary_scores = entry.boundary_scores
    /\ row.session_count = entry.session_count

\* The rows are ranked 1, 2, ... in ascending order of the score filter f
\* names, each row shows an entry of its own, and no entry left out has a
\* lower score than a row shown.
RankedAscending(rows, entries, f) ==
    /\ \A i \in DOMAIN rows : rows[i].rank = i
    /\ \A i, j \in DOMAIN rows : i < j => RankedScore(rows[i], f) <= RankedScore(rows[j], f)
    /\ \E m \in [DOMAIN rows -> DOMAIN entries] :
          /\ \A i, j \in DOMAIN rows : i # j => m[i] # m[j]
          /\ \A i \in DOMAIN rows : ShowsEntry(rows[i], entries[m[i]])
          /\ \A k \in DOMAIN entries \ {m[i] : i \in DOMAIN rows} :
                \A i \in DOMAIN rows :
                    RankedScore(entries[k], f) >= RankedScore(rows[i], f)

\* C10 as stated: get_leaderboard returns the entries in ascending composite
\* order when the filter is absent or no boundary key, in ascending order of
\* the named boundary's score when it is one, ranked from 1, and at most limit
\* of them (a limit below 0 allowing none).
C10_AtMostLimitRows ==
    IsView(response) =>
        /\ RankedAscending(response.leaderboard, Entries, query.boundary_filter)
        /\ Len(response.leaderboard) <= (IF query.limit > 0 THEN query.limit ELSE 0)

\* What get_leaderboard returns for every limit: the order and the ranks are
\* those of the claim; of the n entries the first min(limit, n) of that order
\* are returned when limit >= 0, and for a negative limit all but the last
\* -limit of them.
RankedAscendingSlice ==
    IsView(response) =>
        /\ RankedAscending(response.leaderboard, Entries, query.boundary_filter)
        /\ Len(response.leaderboard) =
              (IF query.limit >= 0
               THEN (IF query.limit < Len(Entries) THEN query.limit ELSE Len(Entries))
               ELSE (IF Len(Entries) + query.limit > 0 THEN Len(Entries) + query.limit ELSE 0))

\* A view filtered by "climate" shows two entries, the one with
\* the higher composite score first.
FilteredViewReordered ==
    /\ IsView(response)
    /\ response.filter = "climate"
    /\ Len(response.leaderboard) = 2
    /\ response.leaderboard[1].composite_score > response.leaderboard[2].composite_score
    /\ RankedScore(response.leaderboard[1], "climate") < RankedScore(response.leaderboard[2], "climate")

\* C2 as stated: a submission for an existing user with a composite strictly
\* lower than the stored one replaces composite_score and boundary_scores by
\* the submitted values, keeps the pseudonym, adds 1 to session_count, and
\* returns 'improved' with improvement = old composite - new composite.
C2_ImprovementIsDifference ==
    [][\A u \in Users, r \in Payloads, now \in Times :
          LET i == FindEntry(Entries, u)
          IN  (/\ i # 0
               /\ r.composite_score < Entries[i].composite_score
               /\ submit_score(Main, u, r.composite_score, r.boundary_scores,
                               r.campus_affiliation, now))
              => /\ Entries'[i].composite_score = r.composite_score
                 /\ Entries'[i].boundary_scores = r.boundary_scores
                 /\ Entries'[i].pseudonym = Entries[i].pseudonym
                 /\ Entries'[i].session_count = Entries[i].session_count + 1
                 /\ response'.status = "improved"
                 /\ response'.improvement = Entries[i].composite_score - r.composite_score
      ]_vars

\* x is d rounded to one decimal place: a whole number of tenths, no further
\* than half a tenth from d.
IsRoundedToTenth(x, d) == x % 10 = 0 /\ 2 * (x - d) <= 10 /\ 2 * (d - x) <= 10

\* C2, amended: as stated, the improvement returned being old composite - new
\* composite rounded to one decimal place.
C2_ImprovedReplacesScore ==
    [][\A u \in Users, r \in Payloads, now \in Times :
          LET i == FindEntry(Entries, u)
          IN  (/\ i # 0
               /\ r.composite_score < Entries[i].composite_score
               /\ submit_score(Main, u, r.composite_score, r.boundary_scores,
                               r.campus_affiliation, now))
              => /\ Entries'[i].composite_score = r.composite_score
                 /\ Entries'[i].boundary_scores = r.boundary_scores
                 /\ Entries'[i].pseudonym = Entries[i].pseudonym
                 /\ Entries'[i].session_count = Entries[i].session_count + 1
                 /\ response'.status = "improved"
                 /\ IsRoundedToTenth(response'.improvement,
                                     Entries[i].composite_score - r.composite_score)
      ]_vars

\* C2's case: after a restart under another hash seed a user improved from
\* 71.00 to 50.00; the entry keeps a pseudonym this run would not generate.
C2_Witness ==
    /\ pc[Main] = "up"
    /\ IsSubmitResponse(response) /\ response.status = "improved"
    /\ response.improvement = 2100
    /\ \E i \in DOMAIN Entries :
          /\ Entries[i].composite_score = 5000
          /\ Entries[i].session_count = 2
          /\ Entries[i].pseudonym # _generate_pseudonym(hash_seed[Main], Entries[i].user_id)

\* The users with an entry in the durable store.
StoredUsers ==
    IF leaderboard_file.kind = "json"
    THEN {leaderboard_file.entries[i].user_id : i \in DOMAIN leaderboard_file.entries}
    ELSE {}

\* C6: no step of submit_score, get_leaderboard or load_leaderboard (a process
\* start) removes an entry: the process that serves keeps the users it held
\* before the step, a process that starts holds the users of the file it
\* found, and the users the store held when the run began are held by every
\* process that serves.  (It holds of the runs of RestartSpec, where no write
\* is interrupted.)
C6_EntriesNeverRemoved ==
    [][/\ (pc[Main] = "up" /\ pc'[Main] = "up") => UserIdsOf(Entries) \subseteq UserIdsOf(Entries')
       /\ pc'[Main] = "up" => (StoredUsers \cup initial_users) \subseteq UserIdsOf(Entries')
      ]_vars

\* C9: every call of _generate_pseudonym for a user returns what the first
\* call for that user returned, in whatever process run the calls are made.
C9_SamePseudonymInEveryRun ==
    [][\A u \in Users, r \in Payloads, now \in Times :
          (/\ first_pseudonym[u] # None
           /\ submit_score(Main, u, r.composite_score, r.boundary_scores,
                           r.campus_affiliation, now))
          => _generate_pseudonym(hash_seed[Main], u) = first_pseudonym[u]
      ]_vars

\* C5: a crash during a write of the leaderboard file leaves the file readable,
\* holding the complete previous or the complete new contents, so that the
\* start that follows loads it and no persisted entry is lost.
C5_CrashLeavesOldOrNewFile ==
    [][\A u \in OneUser, r \in Payloads, now \in Times, reached \in CrashPoints :
          submit_score_crash(Main, u, r.composite_score, r.boundary_scores,
                             r.campus_affiliation, now, reached)
          => /\ leaderboard_file'.kind = "json"
             /\ \/ leaderboard_file' = leaderboard_file
                \/ leaderboard_file'.entries =
                      [i \in DOMAIN leaderboard_file'.entries |->
                          asdict(SubmitOutcome(Entries, hash_seed[Main], u, r.composite_score,
                                               r.boundary_scores, r.campus_affiliation, now).entries[i])]
             /\ StoredUsers \subseteq StoredUsers'
      ]_vars

\* The durable file holds exactly the entries of the memory, field by field.
FileHoldsMemory ==
    /\ leaderboard_file.kind = "json"
    /\ DOMAIN leaderboard_file.entries = DOMAIN Entries
    /\ \A i \in DOMAIN Entries :
          /\ DOMAIN leaderboard_file.entries[i] = DOMAIN Entries[i]
          /\ \A f \in DOMAIN Entries[i] : leaderboard_file.entries[i][f] = Entries[i][f]

\* C7: whenever submit_score has returned normally (new_entry, improved or
\* no_improvement), the leaderboard file holds exactly the entries that are in
\* memory, the updated session_count included.
C7_SubmissionPersistsFullStore ==
    (pc[Main] = "up" /\ IsSubmitResponse(response)) => FileHoldsMemory

\* C7's case: the third submission of u1 returned no_improvement and both
\* the memory and the file hold its entry with session_count 3.
C7_Witness ==
    /\ pc[Main] = "up"
    /\ IsSubmitResponse(response) /\ response.status = "no_improvement"
    /\ submitted["u1"].count = 3
    /\ \E i \in DOMAIN Entries :
          /\ Entries[i].user_id = "u1" /\ Entries[i].session_count = 3
          /\ leaderboard_file.entries[i].session_count = 3
    /\ Len(Entries) = 2

\* The answer is an error of the endpoint.
IsErrorResponse(r) == "status_code" \in DOMAIN r

\* The lower of two composites.
Lower(a, b) == IF a < b THEN a ELSE b

\* C8: when the write of the file fails during submit_score, the memory holds
\* the update (the new entry, the improved score or the counted session) and
\* the caller gets an error; the same submission sent again, whether its write
\* succeeds or fails, leaves the stored composite and every other field as the
\* first attempt left them and adds 1 to session_count.
C8_WriteFailureKeepsUpdateAndRetryIsSafe ==
    [][\A u \in OneUser, r \in Payloads, now \in Times :
          LET i == FindEntry(Entries, u)
              j == FindEntry(Entries', u)
              retried == [user_id |-> u, composite_score |-> r.composite_score,
                          boundary_scores |-> r.boundary_scores,
                          campus_affiliation |-> r.campus_affiliation]
          IN  /\ (\E failure \in WriteFailures :
                     submit_score_save_fails(Main, u, r.composite_score, r.boundary_scores,
                                             r.campus_affiliation, now, failure))
                 => /\ IsErrorResponse(response')
                    /\ j # 0
                    /\ IF i = 0
                       THEN /\ Len(Entries') = Len(Entries) + 1
                            /\ Entries'[j].composite_score = r.composite_score
                            /\ Entries'[j].session_count = 1
                       ELSE /\ j = i
                            /\ Entries'[j].composite_score =
                                   Lower(r.composite_score, Entries[i].composite_score)
                            /\ Entries'[j].session_count = Entries[i].session_count + 1
              /\ (/\ failed_request = retried
                  /\ \/ submit_score(Main, u, r.composite_score, r.boundary_scores,
                                     r.campus_affiliation, now)
                     \/ \E failure \in WriteFailures :
                           submit_score_save_fails(Main, u, r.composite_score, r.boundary_scores,
                                                   r.campus_affiliation, now, failure))
                 => /\ i # 0
                    /\ Entries' = [Entries EXCEPT ![i].session_count = @ + 1]
      ]_vars

\* C8's case: the write failed for a first submission of 71.00 and failed
\* again for the same submission sent again: the file never held the entry,
\* the memory holds it with the composite of the first attempt and count 2.
C8_Witness ==
    /\ pc[Main] = "up"
    /\ IsErrorResponse(response)
    /\ failed_request # NoFailedRequest /\ failed_request.composite_score = 7100
    /\ submitted["u1"] = [count |-> 2, best |-> 7100]
    /\ "u1" \notin StoredUsers
    /\ \E i \in DOMAIN Entries :
          /\ Entries[i].user_id = "u1"
          /\ Entries[i].composite_score = 7100 /\ Entries[i].session_count = 2

\* The entries of user_id in the leaderboard file.
StoredEntriesOf(user_id) ==
    IF leaderboard_file.kind = "json"
    THEN {i \in DOMAIN leaderboard_file.entries : leaderboard_file.entries[i].user_id = user_id}
    ELSE {}

\* C4: submit_score calls for one user, whichever process handles each, leave
\* what the calls made one after the other leave: one stored entry for the
\* user, its session_count the number of calls, its composite the lowest
\* composite submitted.
C4_ConcurrentSubmissionsSerialized ==
    \A u \in OneUser :
        submitted[u].count > 0 =>
            /\ Cardinality(StoredEntriesOf(u)) = 1
            /\ \A i \in StoredEntriesOf(u) :
                  /\ leaderboard_file.entries[i].session_count = submitted[u].count
                  /\ leaderboard_file.entries[i].composite_score = submitted[u].best

\* The fields of a row of the view.
RowFields ==
    {"rank", "pseudonym", "composite_score", "boundary_scores", "submission_date",
     "session_count", "campus_affiliation"}

\* The row shows entry and nothing else of it: the date part of its
\* timestamp, its affiliation or "Not specified".
RowOfEntry(row, entry) ==
    /\ ShowsEntry(row, entry)
    /\ row.submission_date = entry.submission_date.date
    /\ row.campus_affiliation =
          (IF entry.campus_affiliation \in {None, ""} THEN "Not specified"
           ELSE entry.campus_affiliation)

\* C11: a row of get_leaderboard carries rank, pseudonym, composite and
\* boundary scores, the date part of the submission timestamp, session_count
\* and the affiliation ("Not specified" when none is stored), and nothing
\* else: no field of it holds a stored user_id or a time of day.
C11_RowsHideUserIdAndTimeOfDay ==
    IsView(response) =>
        \A k \in DOMAIN response.leaderboard :
            LET row == response.leaderboard[k]
            IN  /\ DOMAIN row = RowFields
                /\ \E i \in DOMAIN Entries : RowOfEntry(row, Entries[i])
                /\ \A i \in DOMAIN Entries :
                      /\ row.pseudonym # Entries[i].user_id
                      /\ row.campus_affiliation # Entries[i].user_id
                      /\ row.submission_date # Entries[i].submission_date.time

\* C11's case: the view shows two rows, one of an entry with an affiliation
\* and one of an entry without, submitted at different times of day.
C11_Witness ==
    /\ IsView(response)
    /\ Len(response.leaderboard) = 2
    /\ \E j, k \in DOMAIN response.leaderboard :
          /\ response.leaderboard[j].campus_affiliation = "Not specified"
          /\ response.leaderboard[k].campus_affiliation = "Lancaster University"
    /\ \E i, j \in DOMAIN Entries :
          Entries[i].submission_date.time # Entries[j].submission_date.time

\* The composite scores of the entries in memory.
AllComposites == [i \in DOMAIN Entries |-> Entries[i].composite_score]

\* m is the lowest of the scores s.
IsMinimumOf(m, s) == (\E i \in DOMAIN s : s[i] = m) /\ (\A i \in DOMAIN s : m <= s[i])

\* m is the median of the scores s: the middle one of an odd number, half the
\* sum of the two middle ones of an even number (twice_m is 2 * m).
IsTwiceMedianOf(twice_m, s) ==
    \E i, j \in DOMAIN s :
        /\ twice_m = s[i] + s[j]
        /\ (Len(s) % 2 = 1) => i = j
        /\ (Len(s) % 2 = 0) => i # j
        /\ Cardinality({k \in DOMAIN s : s[k] < s[i] \/ (s[k] = s[i] /\ k < i)}) = (Len(s) - 1) \div 2
        /\ Cardinality({k \in DOMAIN s : s[k] < s[j] \/ (s[k] = s[j] /\ k < j)}) = Len(s) \div 2

\* m is the element at index len(s) // 2 of sorted(s): the middle one of an
\* odd number, the upper of the two middle ones of an even number.
IsUpperMedianOf(m, s) ==
    \E j \in DOMAIN s :
        /\ m = s[j]
        /\ Cardinality({k \in DOMAIN s : s[k] < s[j] \/ (s[k] = s[j] /\ k < j)}) = Len(s) \div 2

\* C12 as stated: the statistics of a view are those of all entries, whatever
\* the limit and the filter: total_participants their number, best_score the
\* lowest composite, average_score the mean composite, median_score the median
\* of the composites.
C12_StatsOverAllEntries ==
    (IsView(response) /\ Entries # << >>) =>
        /\ response.stats.total_participants = Len(Entries)
        /\ IsMinimumOf(response.stats.best_score, AllComposites)
        /\ response.stats.average_score * Len(Entries) = SumSeq(AllComposites)
        /\ IsTwiceMedianOf(2 * response.stats.median_score, AllComposites)

\* C12, amended: the statistics are those of all entries, whatever the limit
\* and the filter: total_participants their number, and, each rounded to one
\* decimal place, best_score the lowest composite, average_score the mean
\* composite and median_score the composite at index n // 2 of the n sorted
\* composites (the upper of the two middle ones when n is even); with no entry
\* the four are 0.
C12_StatsOverAllEntriesRounded ==
    IsView(response) =>
        IF Entries = << >>
        THEN /\ response.stats.total_participants = 0
             /\ response.stats.best_score = 0
             /\ response.stats.average_score = 0
             /\ response.stats.median_score = 0
        ELSE /\ response.stats.total_participants = Len(Entries)
             /\ \E m \in {AllComposites[i] : i \in DOMAIN Entries} :
                   IsMinimumOf(m, AllComposites) /\ IsRoundedToTenth(response.stats.best_score, m)
             /\ response.stats.average_score % 10 = 0
             /\ 2 * (response.stats.average_score * Len(Entries) - SumSeq(AllComposites)) <= 10 * Len(Entries)
             /\ 2 * (SumSeq(AllComposites) - response.stats.average_score * Len(Entries)) <= 10 * Len(Entries)
             /\ \E m \in {AllComposites[i] : i \in DOMAIN Entries} :
                   IsUpperMedianOf(m, AllComposites) /\ IsRoundedToTenth(response.stats.median_score, m)

\* C12's case: a view limited to one row of a store of two entries, 50.04 and
\* 71.00: two participants, best 50.0, median 71.0.
C12_Witness ==
    /\ IsView(response)
    /\ query.limit = 1
    /\ Len(response.leaderboard) = 1
    /\ Len(Entries) = 2
    /\ response.stats.total_participants = 2
    /\ IsMinimumOf(5004, AllComposites)
    /\ response.stats.best_score = 5000
    /\ response.stats.median_score = 7100

\* A call of score_item has been made.
Scored == DOMAIN request # {}

\* The call returned a result.
Returned == Scored /\ "returned" \in DOMAIN result

\* C13: score_item is total: whatever the type, category and materials of
\* the item (unknown values, missing fields), the call returns without
\* raising, and its result holds a normalized score between 0 and 100 for
\* each of the five configured boundaries.
C13_ScoreItemTotal ==
    Scored =>
        /\ "returned" \in DOMAIN result
        /\ \A boundary \in DOMAIN PLANETARY_BOUNDARIES :
              /\ boundary \in DOMAIN result.returned
              /\ QLe(Q(0, 1), result.returned[boundary])
              /\ QLe(result.returned[boundary], Q(100, 1))

\* C14: score_item is pure: a call leaves FACTOR_TABLES and
\* PLANETARY_BOUNDARIES as they were and the caller's item as it was given,
\* and an item scored again gets the result it got the first time, whatever
\* items were scored in between.
C14_ScoreItemPure ==
    [][/\ FACTOR_TABLES' = FACTOR_TABLES
       /\ PLANETARY_BOUNDARIES' = PLANETARY_BOUNDARIES
       /\ request'.after = request'.argument
       /\ request'.again => result' = first_result[request'.argument]]_vars

\* C14's case: an item whose category is a key of the fashion table and
\* holds a keyword of the negative modifier, so that the row is copied and
\* the copy rewritten, is scored a second time.
C14_Witness ==
    /\ Returned
    /\ request.again
    /\ request.argument = [type |-> "clothing", category |-> "fast-fashion", materials |-> << >>]
    /\ result.returned.ecoscore_details.factor_table_used = "fashion"
    /\ result.returned.ecoscore_details.raw_scores.aerosols = Q(95, 1)
    /\ result = first_result[request.argument]
    /\ FACTOR_TABLES = FactorTables

\* The item of the last call holds a keyword of keywords in its category or
\* in one of its materials, letter case aside.
Triggered(keywords) ==
    LET item == request.argument
        given == DictGet(item, "materials", << >>)
    IN  \E keyword \in keywords :
            \/ StrIn(keyword, lower(DictGet(item, "category", "")))
            \/ \E m \in DOMAIN given : StrIn(keyword, lower(given[m]))

\* The raw scores of the last result.
RawScores == result.returned.ecoscore_details.raw_scores

\* C17: after the contextual modifiers, every raw boundary score of an item
\* that triggered the negative modifier (fast, processed, imported,
\* synthetic) is at most 95 and every raw boundary score of an item that
\* triggered the positive modifier (local, organic, recycled, sustainable,
\* eco) is at least 5, also when both modifiers apply.
C17_ModifiersClamped ==
    Returned =>
        /\ DOMAIN RawScores = DOMAIN PLANETARY_BOUNDARIES
        /\ Triggered({"fast", "processed", "imported", "synthetic"}) =>
              \A boundary \in DOMAIN RawScores : QLe(RawScores[boundary], Q(95, 1))
        /\ Triggered({"local", "organic", "recycled", "sustainable", "eco"}) =>
              \A boundary \in DOMAIN RawScores : QLe(Q(5, 1), RawScores[boundary])

\* C17's case: an item that triggers both modifiers and takes the row "walk",
\* whose scores are 5 or less: the floor holds them at 5 and the negative
\* modifier raises them to 6.
C17_Witness ==
    /\ Returned
    /\ Triggered({"fast", "processed", "imported", "synthetic"})
    /\ Triggered({"local", "organic", "recycled", "sustainable", "eco"})
    /\ \A boundary \in DOMAIN RawScores : RawScores[boundary] = Q(6, 1)

\* The table of the domain the last item was scored in, its category and
\* its materials in lower case.
DomainTable == FACTOR_TABLES[result.returned.ecoscore_details.factor_table_used]

ItemCategory == lower(DictGet(request.argument, "category", ""))

ItemMaterials ==
    LET given == DictGet(request.argument, "materials", << >>)
    IN  [m \in DOMAIN given |-> lower(given[m])]

\* Row i of the domain table has text as its key, and has a key that holds
\* text or is held by it.
KeyIs(i, text) == DomainTable[i].category = text

KeyHasPart(i, text) ==
    StrIn(text, DomainTable[i].category) \/ StrIn(DomainTable[i].category, text)

\* The five scores of row i of the domain table, and their mean per boundary
\* over the rows of the table.
RowScores(i) == [boundary \in DOMAIN PLANETARY_BOUNDARIES |-> DomainTable[i].scores[boundary]]

MeanScores ==
    [boundary \in DOMAIN PLANETARY_BOUNDARIES |->
        QDiv(QSum([i \in DOMAIN DomainTable |-> DomainTable[i].scores[boundary]]),
             Q(Len(DomainTable), 1))]

\* scores after the modifiers the last item triggers.
AfterModifiers(scores) ==
    LET reduced == IF Triggered({"local", "organic", "recycled", "sustainable", "eco"})
                   THEN [b \in DOMAIN scores |-> QMax(Q(5, 1), QMul(scores[b], Q(4, 5)))]
                   ELSE scores
    IN  IF Triggered({"fast", "processed", "imported", "synthetic"})
        THEN [b \in DOMAIN reduced |-> QMin(Q(95, 1), QMul(reduced[b], Q(6, 5)))]
        ELSE reduced

\* The raw scores of the last result are those of row i, modifiers applied.
TookRow(i) == RawScores = AfterModifiers(RowScores(i))

\* C19: the raw scores of an item are, before the modifiers, those of the
\* row whose key is the category; failing that, of the first row whose key
\* holds the category or is held by it; failing that, of the first such row
\* for the first material that has one; and when none of the three matches,
\* the mean per boundary of the scores of every row of the domain's table.
C19_MatchOrder ==
    Returned =>
        LET rows == DOMAIN DomainTable
            matching == {m \in DOMAIN ItemMaterials : \E i \in rows : KeyHasPart(i, ItemMaterials[m])}
        IN  IF \E i \in rows : KeyIs(i, ItemCategory)
            THEN \E i \in rows : KeyIs(i, ItemCategory) /\ TookRow(i)
            ELSE IF \E i \in rows : KeyHasPart(i, ItemCategory)
            THEN \E i \in rows :
                    /\ KeyHasPart(i, ItemCategory)
                    /\ \A j \in rows : KeyHasPart(j, ItemCategory) => i <= j
                    /\ TookRow(i)
            ELSE IF matching # {}
            THEN \E m \in matching, i \in rows :
                    /\ \A n \in matching : m <= n
                    /\ KeyHasPart(i, ItemMaterials[m])
                    /\ \A j \in rows : KeyHasPart(j, ItemMaterials[m]) => i <= j
                    /\ TookRow(i)
            ELSE RawScores = AfterModifiers(MeanScores)

\* C19's case: the category "bus ride" is no key and holds the key "bus",
\* while the material "walk" is the key of an earlier row: the item takes
\* the scores of "bus".
C19_Witness ==
    /\ Returned
    /\ ItemCategory = "bus ride"
    /\ ItemMaterials = <<"walk">>
    /\ \E i \in DOMAIN DomainTable : KeyIs(i, "bus") /\ TookRow(i)
    /\ \E i \in DOMAIN DomainTable : KeyIs(i, "walk") /\ ~TookRow(i)

\* C20: an item whose category is missing or empty and that has no materials
\* matches no key of its domain's table: its raw scores are the mean per
\* boundary of the rows of the table.
C20_NoCategoryScoredAsAverage ==
    (Returned /\ ItemCategory = "" /\ ItemMaterials = << >>) => RawScores = MeanScores

\* The grades from best to worst, and the highest composite of each but the
\* last.
GradeOrder == <<"A+", "A", "B+", "B", "C+", "C", "D+", "D", "F">>

GradeThresholds == <<20, 30, 40, 50, 60, 70, 80, 90>>

GradeRank(grade) == CHOOSE i \in DOMAIN GradeOrder : GradeOrder[i] = grade

\* grade is the one of composite c under the thresholds, each the highest
\* composite of its grade.
GradeOf(c, grade) ==
    /\ grade \in {GradeOrder[i] : i \in DOMAIN GradeOrder}
    /\ GradeRank(grade) > 1 => QLt(Q(GradeThresholds[GradeRank(grade) - 1], 1), c)
    /\ GradeRank(grade) < Len(GradeOrder) => QLe(c, Q(GradeThresholds[GradeRank(grade)], 1))

\* C16: the grade of a composite is the one whose inclusive upper threshold
\* (20, 30, 40, 50, 60, 70, 80, 90) is the first the composite does not
\* exceed, F above 90; and of two composites c1 < c2 graded one after the
\* other, the grade of c1 is never worse than the grade of c2 in the order
\* A+, A, B+, B, C+, C, D+, D, F.
C16_GradeMonotone ==
    [][/\ GradeOf(request'.argument, result'.returned)
       /\ (Scored /\ QLt(request.argument, request'.argument)) =>
             GradeRank(result.returned) <= GradeRank(result'.returned)
       /\ (Scored /\ QLt(request'.argument, request.argument)) =>
             GradeRank(result'.returned) <= GradeRank(result.returned)]_vars

\* C16's case: the composite 50, which is a threshold, is graded B.
C16_Witness ==
    /\ Scored
    /\ request.call = "calculate_grade"
    /\ request.argument = Q(50, 1)
    /\ result.returned = "B"

\* The sum of scores[b] * weight over the boundaries b that scores has, and
\* the sum of their weights.
WeightedTotal(scores) ==
    QSum([i \in DOMAIN BoundaryOrder |->
             IF BoundaryOrder[i] \in DOMAIN scores
             THEN QMul(scores[BoundaryOrder[i]], PLANETARY_BOUNDARIES[BoundaryOrder[i]].weight)
             ELSE Q(0, 1)])

WeightOfPresent(scores) ==
    QSum([i \in DOMAIN BoundaryOrder |->
             IF BoundaryOrder[i] \in DOMAIN scores
             THEN PLANETARY_BOUNDARIES[BoundaryOrder[i]].weight
             ELSE Q(0, 1)])

\* x and y are no more than half a tenth apart.
WithinHalfTenth(x, y) == QLe(QSub(x, y), Q(1, 20)) /\ QLe(QSub(y, x), Q(1, 20))

\* C15: in every result of calculate_ecoscore and of
\* calculate_ecoscore_from_quiz_responses the composite before rounding is
\* the sum of average * weight over the boundaries present divided by the sum
\* of their weights, and the composite returned is that rounded to one
\* decimal; the five weights sum to 1, so that with the five boundaries
\* present the divisor is 1, and the composite lies between 0 and 100.
C15_CompositeIsWeightedMean ==
    Returned =>
        LET averages == result.returned.per_boundary_averages
            mean == QDiv(WeightedTotal(averages), WeightOfPresent(averages))
        IN  /\ WeightOfPresent(PLANETARY_BOUNDARIES) = Q(1, 1)
            /\ DOMAIN averages = DOMAIN PLANETARY_BOUNDARIES
            /\ WeightOfPresent(averages) = Q(1, 1)
            /\ "composite_score" \in DOMAIN result => result.composite_score = mean
            /\ WithinHalfTenth(result.returned.composite, mean)
            /\ QLe(Q(0, 1), mean) /\ QLe(mean, Q(100, 1))
            /\ QLe(Q(0, 1), result.returned.composite)
            /\ QLe(result.returned.composite, Q(100, 1))

\* C15's case: two items scored, a plant-based meal and a fast-fashion
\* garment, with averages from 21.25 to 95; the composite returned, 49.8, is
\* the rounding of another value.
C15_Witness ==
    /\ Returned
    /\ request.call = "calculate_ecoscore"
    /\ Len(request.items) = 2
    /\ result.returned.per_boundary_averages.biosphere = Q(95, 1)
    /\ result.returned.per_boundary_averages.freshwater = Q(85, 4)
    /\ result.returned.composite = Q(498, 10)
    /\ result.composite_score # result.returned.composite

\* The last request had no items and, where it can have them, no quiz
\* responses.
NothingToScore ==
    /\ request.items = << >>
    /\ request.call = "enhanced_intake" => request.quiz_responses = << >>

\* C18: a scoring request with no items and no quiz responses returns the
\* default result, the five averages 50.0, the composite 50.0 and the grade
\* "C": calculate_ecoscore called with an empty list, and the intake, which
\* scores the empty list of quiz responses when there are no items.
C18_NothingToScoreGetsDefault ==
    (Returned /\ NothingToScore) =>
        /\ \A boundary \in DOMAIN PLANETARY_BOUNDARIES :
              result.returned.per_boundary_averages[boundary] = Q(50, 1)
        /\ result.returned.composite = Q(50, 1)
        /\ result.returned.grade = "C"

\* The details block of the last result.
Details == result.returned.ecoscore_details

\* Some row of the domain table matches the last item: by its category, as
\* the key or as a part, or by one of its materials.
SomeRowMatches ==
    \E i \in DOMAIN DomainTable :
        \/ KeyHasPart(i, ItemCategory)
        \/ \E m \in DOMAIN ItemMaterials : KeyHasPart(i, ItemMaterials[m])

\* C21: the details block of a scored item records the entry that matched:
\* factor_table_used is the domain, a table of FACTOR_TABLES, and, when a
\* row of it matched, category_matched is the key of the row whose scores
\* were used and description is the description of that row.
C21_DetailsRecordMatchedEntry ==
    Returned =>
        /\ Details.factor_table_used \in DOMAIN FACTOR_TABLES
        /\ SomeRowMatches =>
              \E i \in DOMAIN DomainTable :
                  /\ TookRow(i)
                  /\ Details.category_matched = DomainTable[i].category
                  /\ Details.description = DomainTable[i].scores.description

\* The boundary's current global status exceeds its safe operating space.
Transgressed(boundary) ==
    QLt(PLANETARY_BOUNDARIES[boundary].safe_operating_space,
        PLANETARY_BOUNDARIES[boundary].current_global_status)

\* min(100, raw / 100 * (50 + 50 * (current - safe) / safe)) for the raw
\* score of the last result on boundary, and min(50, raw / 100 * 50).
TransgressionScaled(boundary) ==
    LET safe == PLANETARY_BOUNDARIES[boundary].safe_operating_space
        current == PLANETARY_BOUNDARIES[boundary].current_global_status
    IN  QMin(Q(100, 1),
             QMul(QDiv(RawScores[boundary], Q(100, 1)),
                  QAdd(Q(50, 1), QDiv(QMul(Q(50, 1), QSub(current, safe)), safe))))

SafeScaled(boundary) == QMin(Q(50, 1), QDiv(RawScores[boundary], Q(2, 1)))

\* C22 as stated: every one of the five boundaries has a current global
\* status above its safe operating space, and every normalized score is
\* min(100, raw / 100 * (50 + 50 * (current - safe) / safe)).
C22_AllBoundariesTransgressed ==
    Returned =>
        \A boundary \in DOMAIN PLANETARY_BOUNDARIES :
            /\ Transgressed(boundary)
            /\ Details.normalized_scores[boundary] = TransgressionScaled(boundary)

\* C22, amended: climate, biosphere, biogeochemical and aerosols have a
\* current global status above their safe operating space and are normalized
\* as min(100, raw / 100 * (50 + 50 * (current - safe) / safe)); freshwater
\* has a current status (2600) below its safe operating space (4000) and is
\* normalized as min(50, raw / 100 * 50).
C22_AllButFreshwaterTransgressed ==
    Returned =>
        \A boundary \in DOMAIN PLANETARY_BOUNDARIES :
            /\ Transgressed(boundary) <=> boundary # "freshwater"
            /\ Details.normalized_scores[boundary] =
                  IF boundary = "freshwater" THEN SafeScaled(boundary)
                  ELSE TransgressionScaled(boundary)
            /\ result.returned[boundary] = Details.normalized_scores[boundary]

\* C22's case: the raw scores of the food row "plant-based": climate 12 is
\* normalized to 249/35 (7.11...), freshwater 25 to 12.5.
C22_Witness ==
    /\ Returned
    /\ RawScores.climate = Q(12, 1)
    /\ RawScores.freshwater = Q(25, 1)
    /\ result.returned.climate = Q(249, 35)
    /\ result.returned.freshwater = Q(25, 2)

\* The scores an item may start from: those of a row of its domain's table,
\* or the mean of all rows.
StartingScores == {RowScores(i) : i \in DOMAIN DomainTable} \cup {MeanScores}

PositiveStep(score) == QMax(Q(5, 1), QMul(score, Q(8, 10)))

NegativeStep(score) == QMin(Q(95, 1), QMul(score, Q(12, 10)))

\* C23: when an item triggers both modifiers, each raw score is the starting
\* score taken through max(5, x * 0.8) and then the outcome of that through
\* min(95, y * 1.2); when it triggers one modifier, only that step is taken;
\* when it triggers none, the raw scores are the starting scores.
C23_ModifiersInSequence ==
    Returned =>
        LET positive == Triggered(PositiveKeywords)
            negative == Triggered(NegativeKeywords)
        IN  \E base \in StartingScores :
                \A boundary \in DOMAIN PLANETARY_BOUNDARIES :
                    RawScores[boundary] =
                        IF positive /\ negative
                        THEN NegativeStep(PositiveStep(base[boundary]))
                        ELSE IF positive THEN PositiveStep(base[boundary])
                        ELSE IF negative THEN NegativeStep(base[boundary])
                        ELSE base[boundary]

\* C23's case: the item of category "walking" with the materials "eco" and
\* "imported" triggers both modifiers on the row "walk" (2, 5, 3, 3, 2):
\* the first step lifts every score to 5, the second makes it 6.
C23_Witness ==
    /\ Returned
    /\ Triggered(PositiveKeywords)
    /\ Triggered(NegativeKeywords)
    /\ ItemCategory = "walking"
    /\ \A boundary \in DOMAIN PLANETARY_BOUNDARIES : RawScores[boundary] = Q(6, 1)
    /\ PositiveStep(Q(2, 1)) = Q(5, 1)
    /\ NegativeStep(Q(5, 1)) = Q(6, 1)

\* C24: the positive modifier never makes an item worse: when the item holds
\* a positive keyword and no negative one, its raw score on every boundary
\* is at most the score of the factor-table row it matched (here: the row
\* whose key is the item's category), which is what the row gives without
\* the keyword.
C24_PositiveNeverWorse ==
    (Returned /\ Triggered(PositiveKeywords) /\ ~Triggered(NegativeKeywords)) =>
        \A i \in DOMAIN DomainTable :
            KeyIs(i, ItemCategory) =>
                \A boundary \in DOMAIN PLANETARY_BOUNDARIES :
                    QLe(RawScores[boundary], RowScores(i)[boundary])

\* The last call scored quiz responses: calculate_ecoscore_from_quiz_responses
\* ran on request.quiz_responses.
QuizScored ==
    /\ Scored
    /\ request.call = "enhanced_intake"
    /\ request.items = << >>

\* The answer is one the adjustments of its question act on.
RecognisedAnswer(question_id, answer) ==
    IF question_id = "food_today"
    THEN \E text \in {"plant-based", "mixed", "meat-heavy", "packaged"} : AnswerIs(answer, text)
    ELSE IF question_id = "transport_today"
    THEN \E text \in {"walk", "bike", "public", "electric", "car"} : AnswerIs(answer, text)
    ELSE IF question_id = "distance_traveled"
    THEN \E text \in {"5_20km", "20_50km", "over_50km"} : AnswerIs(answer, text)
    ELSE IF question_id = "water_usage"
    THEN IF "str" \in DOMAIN answer THEN IsDecimal(answer.str) ELSE FALSE
    ELSE IF question_id = "waste_reduction"
    THEN "list" \in DOMAIN answer
    ELSE FALSE

\* The answers in force (the last one given to each question).
AnswersInForce == ResponsesDict(request.quiz_responses)

RecognisedQuestions ==
    {question_id \in DOMAIN AnswersInForce :
        RecognisedAnswer(question_id, AnswersInForce[question_id])}

Baseline == [boundary \in DOMAIN PLANETARY_BOUNDARIES |-> Q(50, 1)]

\* C25: a quiz response with an unknown question id, or with an answer that
\* is no recognised value of its question, raises no error and leaves every
\* boundary as it is: the boundary scores of the result are those the
\* recognised answers alone give, and the baseline 50 on every boundary when
\* no answer is recognised.
C25_UnrecognisedResponsesIgnored ==
    QuizScored =>
        /\ Returned
        /\ result.returned.per_boundary_averages =
              QuizScores(Baseline,
                         [question_id \in RecognisedQuestions |-> AnswersInForce[question_id]])
        /\ RecognisedQuestions = {} => result.returned.per_boundary_averages = Baseline

\* C25's case: quiz responses of which none is recognised (a water answer
\* that is no number, an unknown question, an unknown food after a known
\* one) got a result.
C25_Witness ==
    /\ QuizScored
    /\ Returned
    /\ request.quiz_responses # << >>
    /\ RecognisedQuestions = {}
    /\ \E i \in DOMAIN request.quiz_responses :
           request.quiz_responses[i] = QuizResponse("food_today", Str("vegan"))
    /\ result.returned.per_boundary_averages.climate = Q(50, 1)

\* The boundary scores after each block of adjustments, in the order of the
\* code: food, transport, distance, water, waste.
AfterFood == FoodImpact(Baseline, AnswersInForce)

AfterTransport == TransportImpact(AfterFood, AnswersInForce)

AfterDistance == DistanceImpact(AfterTransport, AnswersInForce)

AfterWater == WaterImpact(AfterDistance, AnswersInForce)

AfterWaste == WasteImpact(AfterWater, AnswersInForce)

\* The answer in force to the question is one of texts.
Answered(question_id, texts) ==
    IF question_id \in DOMAIN AnswersInForce
    THEN \E text \in texts : AnswerIs(AnswersInForce[question_id], text)
    ELSE FALSE

\* The water rating in force is a number from lowest to highest.
WaterRated(lowest, highest) ==
    IF "water_usage" \in RecognisedQuestions
    THEN LET water_rating == ParseInt(AnswersInForce["water_usage"].str)
         IN  lowest <= water_rating /\ water_rating <= highest
    ELSE FALSE

NoneHigher(after, before) ==
    \A boundary \in DOMAIN PLANETARY_BOUNDARIES : QLe(after[boundary], before[boundary])

NoneLower(after, before) == NoneHigher(before, after)

\* C26: whatever the combination of answers, the adjustment of a lowering
\* answer (plant-based or mixed food; walk, bike, public or electric
\* transport; a water rating of 3 or less; waste-reduction actions) leaves no
\* boundary higher than it was before that adjustment, and the adjustment of
\* a raising answer (meat-heavy or packaged food; car; a distance of 5 km or
\* more; a water rating of 4 or more) leaves none lower.
C26_AdjustmentsKeepDirection ==
    QuizScored =>
        /\ Returned
        /\ result.returned.per_boundary_averages = AfterWaste
        /\ Answered("food_today", {"plant-based", "mixed"}) => NoneHigher(AfterFood, Baseline)
        /\ Answered("food_today", {"meat-heavy", "packaged"}) => NoneLower(AfterFood, Baseline)
        /\ Answered("transport_today", {"walk", "bike", "public", "electric"}) =>
              NoneHigher(AfterTransport, AfterFood)
        /\ Answered("transport_today", {"car"}) => NoneLower(AfterTransport, AfterFood)
        /\ Answered("distance_traveled", {"5_20km", "20_50km", "over_50km"}) =>
              NoneLower(AfterDistance, AfterTransport)
        /\ WaterRated(1, 3) => NoneHigher(AfterWater, AfterDistance)
        /\ WaterRated(4, 5) => NoneLower(AfterWater, AfterDistance)
        /\ "waste_reduction" \in RecognisedQuestions => NoneHigher(AfterWaste, AfterWater)

\* The last call was calculate_ecoscore or scored quiz responses.
EcoScored == Scored /\ request.call \in {"calculate_ecoscore", "enhanced_intake"}

\* C27: in every result of calculate_ecoscore and of
\* calculate_ecoscore_from_quiz_responses, the default result of an empty
\* list of items included, the reported grade is the grade the thresholds
\* (20, 30, 40, 50, 60, 70, 80, 90) give the reported composite.
C27_GradeOfReportedComposite ==
    (EcoScored /\ Returned) =>
        GradeOf(result.returned.composite, result.returned.grade)

\* The statistics the serving process holds.
Stats == leaderboard_stats[Main]

\* The number of entries whose composite (in hundredths) is above low and at
\* most high.
EntriesScored(low, high) ==
    Cardinality({i \in DOMAIN Entries :
                    low < Entries[i].composite_score /\ Entries[i].composite_score <= high})

\* C30: after every submit_score the stored statistics agree with the
\* entries: unique_users is the number of entries, total_submissions the sum
\* of their session_counts, and the four buckets (at most 30 excellent, at
\* most 50 good, at most 70 average, above 70 needs_improvement) count every
\* entry exactly once.
C30_StatsAgreeWithEntries ==
    IsSubmitResponse(response) =>
        /\ Stats.unique_users = Len(Entries)
        /\ Stats.total_submissions =
              SumSeq([i \in DOMAIN Entries |-> Entries[i].session_count])
        /\ Stats.score_distribution.excellent = EntriesScored(-1, 3000)
        /\ Stats.score_distribution.good = EntriesScored(3000, 5000)
        /\ Stats.score_distribution.average = EntriesScored(5000, 7000)
        /\ Stats.score_distribution.needs_improvement =
              Len(Entries) - EntriesScored(-1, 7000)
        /\ Stats.score_distribution.excellent + Stats.score_distribution.good
           + Stats.score_distribution.average
           + Stats.score_distribution.needs_improvement = Len(Entries)

\* C30's case: two users hold entries, one of them after two submissions,
\* with composites 50.00 (good) and 71.00 (needs improvement).
C30_Witness ==
    /\ IsSubmitResponse(response)
    /\ Len(Entries) = 2
    /\ Stats.total_submissions = 3
    /\ Stats.unique_users = 2
    /\ Stats.score_distribution.good = 1
    /\ Stats.score_distribution.needs_improvement = 1

\* The last call was generate_recommendations; its scores and its list.
Recommended == Scored /\ request.call = "generate_recommendations"

Recommendations == result.returned

RecommendedBoundaries == {Recommendations[i].category : i \in DOMAIN Recommendations}

AboveForty == {boundary \in DOMAIN request.boundary_scores :
                  QLt(Q(40, 1), request.boundary_scores[boundary])}

\* The types of the items of the last call, letter case aside.
TypesGiven == {lower(DictGet(request.items[i], "type", "")) : i \in DOMAIN request.items}

\* The words in an action text that answer the item types given.
TypeKeywords ==
    (IF TypesGiven \cap {"food", "meal"} # {} THEN {"meal", "food", "meat"} ELSE {})
    \cup (IF TypesGiven \cap {"clothing", "outfit"} # {} THEN {"clothing", "second-hand"} ELSE {})
    \cup (IF TypesGiven \cap {"transport", "mobility"} # {} THEN {"transport", "bike"} ELSE {})

\* The templates of the boundary whose action holds such a word.
MatchingTemplates(boundary) ==
    {t \in DOMAIN recommendation_templates[boundary] :
        \E keyword \in TypeKeywords :
            StrIn(keyword, recommendation_templates[boundary][t].action)}

\* Entry i was made from template t of its boundary.
FromTemplate(i, t) ==
    LET template == recommendation_templates[Recommendations[i].category][t]
    IN  /\ Recommendations[i].action = template.action
        /\ Recommendations[i].impact = template.impact
        /\ Recommendations[i].difficulty = template.difficulty

\* The list holds one entry for each of the (at most three) highest
\* boundaries above 40 and none for another, highest first, each with the
\* display name of its boundary and a template chosen by the item types.
RankedAndChosen ==
    /\ Len(Recommendations) <= 5
    /\ Cardinality(RecommendedBoundaries) = Len(Recommendations)
    /\ RecommendedBoundaries \subseteq AboveForty
    /\ Len(Recommendations) = IF Cardinality(AboveForty) < 3 THEN Cardinality(AboveForty) ELSE 3
    /\ \A boundary \in RecommendedBoundaries, other \in AboveForty \ RecommendedBoundaries :
          QLe(request.boundary_scores[other], request.boundary_scores[boundary])
    /\ \A i, j \in DOMAIN Recommendations :
          i < j => QLe(request.boundary_scores[Recommendations[j].category],
                       request.boundary_scores[Recommendations[i].category])
    /\ \A i \in DOMAIN Recommendations :
          LET boundary == Recommendations[i].category
          IN  /\ Recommendations[i].boundary = PLANETARY_BOUNDARIES[boundary].name
              /\ IF MatchingTemplates(boundary) # {}
                 THEN \E t \in MatchingTemplates(boundary) : FromTemplate(i, t)
                 ELSE FromTemplate(i, 1)

\* C28 as stated: generate_recommendations ranks the boundaries by descending
\* score and returns one recommendation for each of the top 3 whose score
\* exceeds 40 and none for another; the list has at most 5 entries; each
\* entry carries the display name of its boundary and the current score on
\* it; its template is one whose action matches the item-type keywords when
\* the boundary has one, the boundary's first template otherwise.
C28_RecommendationsForTopThree ==
    Recommended =>
        /\ RankedAndChosen
        /\ \A i \in DOMAIN Recommendations :
              Recommendations[i].current_score =
                  request.boundary_scores[Recommendations[i].category]

\* C28, amended: as stated, except that each entry carries the current score
\* rounded to one decimal place.
C28_RecommendationsForTopThreeRounded ==
    Recommended =>
        /\ RankedAndChosen
        /\ \A i \in DOMAIN Recommendations :
              /\ \E tenths \in 0..1000 : Recommendations[i].current_score = Q(tenths, 10)
              /\ WithinHalfTenth(Recommendations[i].current_score,
                                 request.boundary_scores[Recommendations[i].category])

\* C28's case: all five boundaries are above 40 and the items are a car ride
\* and an outfit: biosphere and freshwater (55.25, reported as 55.2) come
\* first with their first templates, then climate (45.67, reported as 45.7)
\* with its clothing template, and biogeochemical and aerosols get nothing.
C28_Witness ==
    /\ Recommended
    /\ Cardinality(AboveForty) = 5
    /\ TypesGiven = {"transport", "outfit"}
    /\ Len(Recommendations) = 3
    /\ Recommendations[1].category = "biosphere"
    /\ Recommendations[1].action = "Choose MSC/FSC certified products"
    /\ Recommendations[2].category = "freshwater"
    /\ Recommendations[2].current_score = Q(552, 10)
    /\ Recommendations[3].boundary = "Climate Change"
    /\ Recommendations[3].current_score = Q(457, 10)
    /\ Recommendations[3].action = "Buy second-hand clothing instead of new"

\* A call of get_personalized_recommendations has returned.
Personalised == Returned /\ request.call = "get_personalized_recommendations"

Personal == result.returned

\* The relevance score the call computed for the action.
Relevance(action_id) == result.score[action_id]

ReturnedActions == {Personal[i].action_id : i \in DOMAIN Personal}

CatalogActions == {actions[n].id : n \in DOMAIN actions}

\* The boundaries counted are the (at most three) highest of the user, and
\* the relevance of every action is its impact on those alone plus the
\* adjustments for the user context.
ImpactOnTopThree ==
    LET priority == result.priority_boundaries
        counted == {priority[i][1] : i \in DOMAIN priority}
        context == IF request.user_context = NoContext THEN EmptyDict
                   ELSE request.user_context
    IN  /\ Len(priority) = 3
        /\ Cardinality(counted) = 3
        /\ \A i \in DOMAIN priority : priority[i][2] = request.boundary_scores[priority[i][1]]
        /\ \A boundary \in counted, other \in DOMAIN request.boundary_scores \ counted :
              QLe(request.boundary_scores[other], request.boundary_scores[boundary])
        /\ \A n \in DOMAIN actions :
              Relevance(actions[n].id) =
                  QAdd(ContextAdjustments(actions[n], context),
                       QSum([i \in DOMAIN priority |->
                               IF priority[i][1] \in DOMAIN actions[n].impact_reduction
                               THEN QDiv(QMul(priority[i][2],
                                              Q(actions[n].impact_reduction[priority[i][1]], 1)),
                                         Q(1000, 1))
                               ELSE Q(0, 1)]))

\* Each returned action carries exactly the resources that list it.
AnnotatedWithResources ==
    \A i \in DOMAIN Personal :
        LET related == Personal[i].related_resources
        IN  /\ {related[r].resource_id : r \in DOMAIN related} =
                  {resources[k].id : k \in
                      {k \in DOMAIN resources :
                          \E a \in DOMAIN resources[k].related_actions :
                              resources[k].related_actions[a] = Personal[i].action_id}}
            /\ \A r, q \in DOMAIN related :
                  related[r].resource_id = related[q].resource_id => r = q

AtMostLimitAllPositive ==
    /\ Len(Personal) <= request.limit
    /\ Cardinality(ReturnedActions) = Len(Personal)
    /\ ReturnedActions \subseteq CatalogActions
    /\ \A action_id \in ReturnedActions : QLt(Q(0, 1), Relevance(action_id))

\* C29 as stated: get_personalized_recommendations returns at most limit
\* actions, each with a relevance score above 0, in non-increasing order of
\* that score, and no catalog action left out has a higher score than a
\* returned one; the impact relevance counts the 3 highest boundaries only;
\* each returned action carries exactly the resources whose related_actions
\* hold it.
C29_TopActionsByRelevance ==
    Personalised =>
        /\ AtMostLimitAllPositive
        /\ \A i, j \in DOMAIN Personal :
              i < j => QLe(Relevance(Personal[j].action_id), Relevance(Personal[i].action_id))
        /\ \A action_id \in CatalogActions \ ReturnedActions, i \in DOMAIN Personal :
              QLe(Relevance(action_id), Relevance(Personal[i].action_id))
        /\ ImpactOnTopThree
        /\ AnnotatedWithResources

\* C29, amended: as stated, except that the order and the cut go by the
\* recommendation score, which is the relevance score rounded to two
\* decimal places: the returned actions are in non-increasing order of it,
\* and no action left out with a relevance above 0 has a higher one than a
\* returned action (actions whose scores round to the same value stay in
\* catalog order).
C29_TopActionsByRoundedRelevance ==
    Personalised =>
        /\ AtMostLimitAllPositive
        /\ \A i \in DOMAIN Personal :
              /\ \E hundredths \in 0..2000 :
                    Personal[i].recommendation_score = Q(hundredths, 100)
              /\ QLe(QSub(Personal[i].recommendation_score, Relevance(Personal[i].action_id)),
                     Q(1, 200))
              /\ QLe(QSub(Relevance(Personal[i].action_id), Personal[i].recommendation_score),
                     Q(1, 200))
        /\ \A i, j \in DOMAIN Personal :
              i < j => QLe(Personal[j].recommendation_score, Personal[i].recommendation_score)
        /\ \A action_id \in CatalogActions \ ReturnedActions, i \in DOMAIN Personal :
              QLe(Relevance(action_id), QAdd(Personal[i].recommendation_score, Q(1, 200)))
        /\ Len(Personal) < request.limit =>
              \A action_id \in CatalogActions \ ReturnedActions :
                  QLe(Relevance(action_id), Q(0, 1))
        /\ ImpactOnTopThree
        /\ AnnotatedWithResources

\* C29's case: the scores aerosols 20, biosphere 15.1 and nothing else, no
\* context, limit 5: clothing_swap (relevance 5.7) is listed before
\* public_transport (5.702), both with the recommendation score 5.7, and
\* seven actions with lower scores are left out.
C29_Witness ==
    /\ Personalised
    /\ request.limit = 5
    /\ request.user_context = NoContext
    /\ Len(Personal) = 5
    /\ Personal[1].action_id = "active_transport"
    /\ Personal[1].recommendation_score = Q(615, 100)
    /\ Personal[1].related_resources =
          <<[resource_id |-> "bike_share", type |-> "bike_share", cost |-> "low"]>>
    /\ Personal[2].action_id = "clothing_swap"
    /\ Relevance("clothing_swap") = Q(57, 10)
    /\ Personal[3].action_id = "public_transport"
    /\ Relevance("public_transport") = Q(5702, 1000)
    /\ Personal[3].recommendation_score = Q(57, 10)
    /\ Personal[4].action_id = "secondhand_shopping"
    /\ Personal[5].action_id = "plant_meals"
    /\ Relevance("reusable_items") = Q(4502, 1000)

====
